---- MODULE Spec2Model ----
(***************************************************************************)
(* The price ledger of the Albert Heijn scrapers: the products and         *)
(* price_history tables of grocery_database.db and the reconciliation      *)
(* smart_save_products of the comprehensive and the Selenium scraper, run  *)
(* by several tasks, each on its own SQLite connection.                    *)
(*                                                                         *)
(* SQLite (rollback journal, Python's implicit transactions): a SELECT     *)
(* outside a transaction reads the committed database; the first INSERT or *)
(* UPDATE of a connection opens a transaction and takes the write lock,    *)
(* which it keeps until commit or until the connection closes (rollback);  *)
(* a second connection that wants to write meanwhile waits, and gets       *)
(* "database is locked" when its busy timeout runs out.                    *)
(***************************************************************************)
EXTENDS Integers, Sequences, FiniteSets, TLC

\* Bounds of the model.
NTasks == 3
MaxCalls == 3
MaxBatch == 2

Tasks == 1..NTasks

\* Python's None / SQL NULL is the empty set, a value v is {v}.
None == {}
Some(v) == {v}
TheValue(o) == CHOOSE v \in o : TRUE

(***************************************************************************)
(* Texts are sequences of one-character strings.                           *)
(***************************************************************************)
Digits == {"0", "1", "2", "3", "4", "5", "6", "7", "8", "9"}

DigitVal(c) ==
    CASE c = "0" -> 0 [] c = "1" -> 1 [] c = "2" -> 2 [] c = "3" -> 3
      [] c = "4" -> 4 [] c = "5" -> 5 [] c = "6" -> 6 [] c = "7" -> 7
      [] c = "8" -> 8 [] c = "9" -> 9

\* The index after the longest run of digits of s that starts at i (\d* / \d+).
RECURSIVE DigitsEnd(_, _)
DigitsEnd(s, i) ==
    IF i <= Len(s) /\ s[i] \in Digits THEN DigitsEnd(s, i + 1) ELSE i

\* The number written by the digits s[i..j-1]; 0 for none.
RECURSIVE DigitsValue(_, _, _)
DigitsValue(s, i, j) ==
    IF j <= i THEN 0 ELSE 10 * DigitsValue(s, i, j - 1) + DigitVal(s[j - 1])

\* A decimal number is <<m, k>>, standing for m / 10^k, with m not divisible
\* by 10 unless k = 0: equal numbers have equal representations, as equal
\* decimal texts give equal floats.
RECURSIVE Decimal(_, _)
Decimal(m, k) ==
    IF k > 0 /\ m % 10 = 0 THEN Decimal(m \div 10, k - 1) ELSE <<m, k>>

RECURSIVE Pow10(_)
Pow10(k) == IF k = 0 THEN 1 ELSE 10 * Pow10(k - 1)

\* float(text) of "<digits>[,.]<digits>" after replace(',', '.').
ToFloat(s, i, j, a, b) ==
    Decimal(DigitsValue(s, i, j) * Pow10(b - a) + DigitsValue(s, a, b), b - a)

\* Mutant of extract_price_numeric: the pattern (\d+) without the fraction.
extract_price_numeric_IntOnly(price_str) ==
    LET starts == {i \in 1..Len(price_str) : price_str[i] \in Digits} IN
    IF starts = {} THEN None
    ELSE LET i == CHOOSE x \in starts : \A y \in starts : x <= y
             j == DigitsEnd(price_str, i)
         IN  Some(ToFloat(price_str, i, j, j, j))

\* extract_price_numeric: re.search(r'(\d+[,.]?\d*)') takes the leftmost
\* digit, the digits after it, one optional separator and the digits after
\* that; None when the text has no digit.
extract_price_numeric(price_str) ==
    LET starts == {i \in 1..Len(price_str) : price_str[i] \in Digits} IN
    IF starts = {} THEN None
    ELSE LET i == CHOOSE x \in starts : \A y \in starts : x <= y
             j == DigitsEnd(price_str, i)
             sep == j <= Len(price_str) /\ price_str[j] \in {",", "."}
             a == IF sep THEN j + 1 ELSE j
             b == DigitsEnd(price_str, a)
         IN  Some(ToFloat(price_str, i, j, a, b))

(***************************************************************************)
(* Text matching: what the regular expressions of extract_price and        *)
(* calculate_sale_price do. A pattern is a sequence of elements; an        *)
(* element consumes greedily (the elements that follow one another in the  *)
(* source's patterns match disjoint sets of characters, so Python's        *)
(* backtracking finds the greedy match or none), an alternation tries its  *)
(* alternatives in order.                                                  *)
(***************************************************************************)
Spaces == {" "}

\* The character U+20AC, the euro sign.
Euro == "U+20AC"

\* str.lower(), for the ASCII letters.
LowerChar(c) ==
    CASE c = "A" -> "a" [] c = "B" -> "b" [] c = "C" -> "c" [] c = "D" -> "d"
      [] c = "E" -> "e" [] c = "F" -> "f" [] c = "G" -> "g" [] c = "H" -> "h"
      [] c = "I" -> "i" [] c = "J" -> "j" [] c = "K" -> "k" [] c = "L" -> "l"
      [] c = "M" -> "m" [] c = "N" -> "n" [] c = "O" -> "o" [] c = "P" -> "p"
      [] c = "Q" -> "q" [] c = "R" -> "r" [] c = "S" -> "s" [] c = "T" -> "t"
      [] c = "U" -> "u" [] c = "V" -> "v" [] c = "W" -> "w" [] c = "X" -> "x"
      [] c = "Y" -> "y" [] c = "Z" -> "z"
      [] OTHER -> c

Lower(s) == [i \in 1..Len(s) |-> LowerChar(s[i])]

\* \w, for ASCII: letters, digits, underscore.
WordChars ==
    Digits \cup {"_"} \cup
    {"a", "b", "c", "d", "e", "f", "g", "h", "i", "j", "k", "l", "m",
     "n", "o", "p", "q", "r", "s", "t", "u", "v", "w", "x", "y", "z"} \cup
    {"A", "B", "C", "D", "E", "F", "G", "H", "I", "J", "K", "L", "M",
     "N", "O", "P", "Q", "R", "S", "T", "U", "V", "W", "X", "Y", "Z"}

\* word occurs in s at index i.
StartsWith(s, i, word) ==
    /\ i + Len(word) - 1 <= Len(s)
    /\ \A j \in 1..Len(word) : s[i + j - 1] = word[j]

\* word in s
Contains(s, word) == \E i \in 1..(Len(s) + 1) : StartsWith(s, i, word)

\* The index after the longest run of spaces of s that starts at i (\s*).
RECURSIVE SpacesEnd(_, _)
SpacesEnd(s, i) ==
    IF i <= Len(s) /\ s[i] \in Spaces THEN SpacesEnd(s, i + 1) ELSE i

\* Pattern elements.
Lit(word) == [k |-> "lit", a |-> <<word>>]
Alt(words) == [k |-> "alt", a |-> words]
D1 == [k |-> "d+", a |-> <<>>]
D0 == [k |-> "d*", a |-> <<>>]
D13 == [k |-> "d{1,3}", a |-> <<>>]
D2 == [k |-> "d{2}", a |-> <<>>]
S1 == [k |-> "s+", a |-> <<>>]
S0 == [k |-> "s*", a |-> <<>>]
Sep == [k |-> "[,.]", a |-> <<>>]
SepOpt == [k |-> "[,.]?", a |-> <<>>]
WordEnd == [k |-> "b", a |-> <<>>]

\* No match.
Fail == <<0>>

\* re.match of the elements k.. of pat on s at index i: the index after each
\* element, or Fail.
RECURSIVE MatchFrom(_, _, _, _)
RECURSIVE MatchAlt(_, _, _, _, _)
MatchAlt(pat, k, s, i, a) ==
    IF a > Len(pat[k].a) THEN Fail
    ELSE LET word == pat[k].a[a]
             rest == IF StartsWith(s, i, word)
                     THEN MatchFrom(pat, k + 1, s, i + Len(word)) ELSE Fail
         IN  IF rest # Fail THEN <<i + Len(word)>> \o rest
             ELSE MatchAlt(pat, k, s, i, a + 1)

MatchFrom(pat, k, s, i) ==
    IF k > Len(pat) THEN <<>>
    ELSE LET e == pat[k].k
             de == DigitsEnd(s, i)
             se == SpacesEnd(s, i)
             isSep == i <= Len(s) /\ s[i] \in {",", "."}
             \* the index after the element, 0: the element does not match
             j == CASE e = "d+" -> IF de > i THEN de ELSE 0
                    [] e = "d*" -> de
                    [] e = "d{1,3}" -> IF de > i /\ de <= i + 3 THEN de
                                       ELSE IF de > i + 3 THEN i + 3 ELSE 0
                    [] e = "d{2}" -> IF de >= i + 2 THEN i + 2 ELSE 0
                    [] e = "s+" -> IF se > i THEN se ELSE 0
                    [] e = "s*" -> se
                    [] e = "[,.]" -> IF isSep THEN i + 1 ELSE 0
                    [] e = "[,.]?" -> IF isSep THEN i + 1 ELSE i
                    [] e = "b" -> IF (i > 1 /\ s[i - 1] \in WordChars)
                                       # (i <= Len(s) /\ s[i] \in WordChars)
                                  THEN i ELSE 0
                    [] OTHER -> 0
         IN  IF e \in {"lit", "alt"} THEN MatchAlt(pat, k, s, i, 1)
             ELSE IF j = 0 THEN Fail
             ELSE LET rest == MatchFrom(pat, k + 1, s, j)
                  IN  IF rest = Fail THEN Fail ELSE <<j>> \o rest

\* re.search(pat, s) from index `from` on: <<start>> \o the index after each
\* element, for the leftmost start that matches; Fail for none.
RECURSIVE SearchFrom(_, _, _)
SearchFrom(pat, s, from) ==
    IF from > Len(s) + 1 THEN Fail
    ELSE LET m == MatchFrom(pat, 1, s, from)
         IN  IF m # Fail THEN <<from>> \o m ELSE SearchFrom(pat, s, from + 1)

Search(pat, s) == SearchFrom(pat, s, 1)

\* What element k of the match m of pat consumed, as indexes <<first, after>>.
Group(m, k) == <<m[k], m[k + 1]>>

\* int(...) of a group of digits.
IntOf(s, g) == DigitsValue(s, g[1], g[2])

\* float(group.replace(',', '.')) of a group matched by \d+[,.]?\d*, whose
\* elements are k, k + 1, k + 2 of the match m.
FloatOf(s, m, k) == ToFloat(s, m[k], m[k + 1], m[k + 2], m[k + 3])

(***************************************************************************)
(* Numbers. A sale price is a Python float; the model computes it exactly, *)
(* as a fraction <<n, d>> in lowest terms with d > 0 (binary rounding of   *)
(* the float arithmetic is not modelled).                                  *)
(***************************************************************************)
RECURSIVE Gcd(_, _)
Gcd(a, b) == IF b = 0 THEN a ELSE Gcd(b, a % b)

Abs(a) == IF a < 0 THEN -a ELSE a

\* n / d for d # 0.
Q(n, d) ==
    LET g == Gcd(Abs(n), Abs(d))
        sign == IF d < 0 THEN -1 ELSE 1
    IN  <<sign * (n \div g), sign * (d \div g)>>

QOfDecimal(dec) == Q(dec[1], Pow10(dec[2]))
QAdd(x, y) == Q(x[1] * y[2] + y[1] * x[2], x[2] * y[2])
QSub(x, y) == Q(x[1] * y[2] - y[1] * x[2], x[2] * y[2])
QMul(x, y) == Q(x[1] * y[1], x[2] * y[2])
QLess(x, y) == x[1] * y[2] < y[1] * x[2]

\* The difference or product as it is, without the floor at 0.
QMax0_NoClamp(x) == x

\* max(0, x)
QMax0(x) == IF QLess(x, Q(0, 1)) THEN Q(0, 1) ELSE x

\* x / y inside the try block: Some(quotient), and None for y = 0, where
\* ZeroDivisionError is raised and the except clause makes the function
\* return None.
QDiv(x, y) == IF y[1] = 0 THEN None ELSE Some(Q(x[1] * y[2], x[2] * y[1]))

\* "if regular_price_num:" is false for None and for 0.0.
Truthy(number) == number # None /\ TheValue(number)[1] # 0

(***************************************************************************)
(* calculate_sale_price (the same in both scrapers).                       *)
(***************************************************************************)
W_voor == <<"v", "o", "o", "r">>
W_euro == <<"e", "u", "r", "o">>
W_korting == <<"k", "o", "r", "t", "i", "n", "g">>
W_halve == <<"h", "a", "l", "v", "e">>
W_prijs == <<"p", "r", "i", "j", "s">>
W_halve_prijs == <<"h", "a", "l", "v", "e", " ", "p", "r", "i", "j", "s">>
W_gratis == <<"g", "r", "a", "t", "i", "s">>
W_free == <<"f", "r", "e", "e">>
W_gram == <<"g", "r", "a", "m">>
W_g == <<"g">>
W_ml == <<"m", "l">>
W_l == <<"l">>
W_kg == <<"k", "g">>
W_cl == <<"c", "l">>
W_e == <<"e">>
W_de == <<"d", "e">>
W_percent == <<"%">>
W_plus == <<"+">>

\* The patterns of the nine formats, in the order of the source.
PatternOf(format) ==
    CASE format = "N voor P" -> <<D1, S1, Lit(W_voor), S1, D1, SepOpt, D0>>
      [] format = "voor P" -> <<Lit(W_voor), S1, D1, SepOpt, D0>>
      [] format = "N euro korting" -> <<D1, S1, Lit(W_euro), S1, Lit(W_korting)>>
      [] format = "N% korting" -> <<D1, S0, Lit(W_percent), S1, Lit(W_korting)>>
      [] format = "Ne halve prijs" ->
            <<D1, Alt(<<W_e, W_de>>), S1, Lit(W_halve), S1, Lit(W_prijs)>>
      [] format = "halve prijs" -> <<Lit(W_halve_prijs)>>
      [] format = "A + B gratis" ->
            <<D1, S0, Lit(W_plus), S0, D1, S1, Alt(<<W_gratis, W_free>>)>>
      [] format = "Ne gratis" -> <<D1, Alt(<<W_e, W_de>>), S1, Lit(W_gratis)>>
      [] format = "U unit voor P" ->
            <<D1, S1, Alt(<<W_gram, W_g, W_ml, W_l, W_kg, W_cl>>), S1,
              Lit(W_voor), S1, D1, SepOpt, D0>>

\* The pattern of the check inside format 5b: \d+e\s+halve\s+prijs
OrdinalHalvePrijs == <<D1, Lit(W_e), S1, Lit(W_halve), S1, Lit(W_prijs)>>

\* What one "if match:" block of calculate_sale_price does on the lowered
\* text: goes on to the next format (returns FALSE), or returns val.
GoOn == [returns |-> FALSE, val |-> None]
ReturnValue(v) == [returns |-> TRUE, val |-> v]

\* "if regular_price_num: return <value>": without a regular price the
\* block is left and the next format is tried.
WithRegular(regular_price_num, v) ==
    IF Truthy(regular_price_num) THEN ReturnValue(v) ELSE GoOn

FormatBlock(format, text_lower, regular_price) ==
    LET m == Search(PatternOf(format), text_lower)
        regular_price_num == extract_price_numeric(regular_price)
        r == QOfDecimal(TheValue(regular_price_num))
        int1 == Q(IntOf(text_lower, Group(m, 1)), 1)
    IN  IF m = Fail THEN GoOn
        ELSE CASE format = "N voor P" ->
                    ReturnValue(QDiv(QOfDecimal(FloatOf(text_lower, m, 5)), int1))
               [] format = "voor P" ->
                    ReturnValue(Some(QOfDecimal(FloatOf(text_lower, m, 3))))
               [] format = "N euro korting" ->
                    WithRegular(regular_price_num, Some(QMax0(QSub(r, int1))))
               [] format = "N% korting" ->
                    WithRegular(regular_price_num,
                        Some(QMax0(QMul(r, QSub(Q(1, 1), QMul(int1, Q(1, 100)))))))
               [] format = "Ne halve prijs" ->
                    WithRegular(regular_price_num, Some(QMul(r, Q(75, 100))))
               [] format = "halve prijs" ->
                    IF Search(OrdinalHalvePrijs, text_lower) # Fail THEN GoOn
                    ELSE WithRegular(regular_price_num, Some(QMul(r, Q(1, 2))))
               [] format = "A + B gratis" ->
                    LET buy == int1
                        free == Q(IntOf(text_lower, Group(m, 5)), 1)
                    IN  WithRegular(regular_price_num,
                                    QDiv(QMul(buy, r), QAdd(buy, free)))
               [] format = "Ne gratis" ->
                    LET items_you_pay_for == QSub(int1, Q(1, 1))
                        items_you_get == int1
                    IN  WithRegular(regular_price_num,
                                    QDiv(QMul(items_you_pay_for, r), items_you_get))
               [] format = "U unit voor P" ->
                    ReturnValue(QDiv(QOfDecimal(FloatOf(text_lower, m, 7)), int1))

\* The order in which calculate_sale_price has its nine blocks.
FormatOrder ==
    <<"N voor P", "voor P", "N euro korting", "N% korting", "Ne halve prijs",
      "halve prijs", "A + B gratis", "Ne gratis", "U unit voor P">>

\* The blocks one after another from block k on; "return None" after the
\* last.
RECURSIVE RunBlocks(_, _, _, _)
RunBlocks(order, k, text_lower, regular_price) ==
    IF k > Len(order) THEN None
    ELSE LET b == FormatBlock(order[k], text_lower, regular_price)
         IN  IF b.returns THEN b.val
             ELSE RunBlocks(order, k + 1, text_lower, regular_price)

calculate_sale_price(text, regular_price) ==
    RunBlocks(FormatOrder, 1, Lower(text), regular_price)

(***************************************************************************)
(* extract_price. The two scrapers differ in the euro sign their patterns  *)
(* and their result are written with: the Selenium scraper's source has    *)
(* U+20AC, the comprehensive scraper's source has the three characters     *)
(* U+00E2 U+201A U+00AC in its place.                                      *)
(***************************************************************************)
EuroOf(scraper) ==
    IF scraper = "selenium" THEN <<Euro>> ELSE <<"U+00E2", "U+201A", "U+00AC">>

\* The result "Not available".
NotAvailable == <<"N", "o", "t", " ", "a", "v", "a", "i", "l", "a", "b", "l", "e">>

\* s without s[i..j-1].
Cut(s, i, j) == SubSeq(s, 1, i - 1) \o SubSeq(s, j, Len(s))

\* r'\d+[,.]\d+\s*(l|ml|g|kg|cl|m)\b', matched with re.IGNORECASE.
UnitSize ==
    <<D1, Sep, D1, S0, Alt(<<W_l, W_ml, W_g, W_kg, W_cl, <<"m">> >>), WordEnd>>

\* re.sub(UnitSize, '', text): every match from index `from` on is removed.
RECURSIVE RemoveUnitSizes(_, _)
RemoveUnitSizes(text, from) ==
    LET m == SearchFrom(UnitSize, Lower(text), from)
    IN  IF m = Fail THEN text
        ELSE RemoveUnitSizes(Cut(text, m[1], m[Len(m)]), m[1])

\* The four price_patterns; first, n: the elements of group 1, which are
\* \d+[,.]?\d* or \d{1,3}[,.]\d{2}.
PricePatterns(scraper) ==
    << [pat |-> <<Lit(EuroOf(scraper)), S0, D1, SepOpt, D0>>, first |-> 3],
       [pat |-> <<D1, SepOpt, D0, S0, Lit(EuroOf(scraper))>>, first |-> 1],
       [pat |-> <<D13, Lit(<<",">>), D2>>, first |-> 1],
       [pat |-> <<D13, Lit(<<".">>), D2>>, first |-> 1] >>

\* 0.01 <= price_num <= 1000.0
InPriceRange(dec) ==
    /\ dec[1] * 100 >= Pow10(dec[2])
    /\ dec[1] <= 1000 * Pow10(dec[2])

\* for pattern in price_patterns: the first pattern that matches with a
\* value in the range gives the result; a match out of the range goes on
\* to the next pattern.
RECURSIVE TryPricePatterns(_, _, _)
TryPricePatterns(scraper, text, k) ==
    IF k > Len(PricePatterns(scraper)) THEN NotAvailable
    ELSE LET p == PricePatterns(scraper)[k]
             m == Search(p.pat, text)
             price_num == FloatOf(text, m, p.first)
             price_value == SubSeq(text, m[p.first], m[p.first + 3] - 1)
         IN  IF m # Fail /\ InPriceRange(price_num)
             THEN EuroOf(scraper) \o price_value
             ELSE TryPricePatterns(scraper, text, k + 1)

extract_price(scraper, text) ==
    TryPricePatterns(scraper, RemoveUnitSizes(text, 1), 1)

(***************************************************************************)
(* detect_sale_and_calculate_price (the same in both scrapers). An article *)
(* is [smart_labels, shields, title]: the p[data-testhook=                 *)
(* "product-smart-label"] and div[data-testhook="product-shield"] elements *)
(* of the product card, each the sequence of the texts of its spans, and   *)
(* the rest of the card's text; in the card the shields come first, then   *)
(* the title, then the smart labels.                                       *)
(***************************************************************************)
W_vandaag == <<"v", "a", "n", "d", "a", "a", "g">>
W_maandag == <<"m", "a", "a", "n", "d", "a", "g">>
W_morgen == <<"m", "o", "r", "g", "e", "n">>
W_dinsdag == <<"d", "i", "n", "s", "d", "a", "g">>
W_woensdag == <<"w", "o", "e", "n", "s", "d", "a", "g">>
W_donderdag == <<"d", "o", "n", "d", "e", "r", "d", "a", "g">>
W_vrijdag == <<"v", "r", "i", "j", "d", "a", "g">>
W_zaterdag == <<"z", "a", "t", "e", "r", "d", "a", "g">>
W_zondag == <<"z", "o", "n", "d", "a", "g">>

\* str.strip()
RECURSIVE Strip(_)
Strip(s) ==
    IF s = <<>> THEN s
    ELSE IF s[1] \in Spaces THEN Strip(Tail(s))
    ELSE IF s[Len(s)] \in Spaces THEN Strip(SubSeq(s, 1, Len(s) - 1))
    ELSE s

\* sep.join(texts)
RECURSIVE Join(_, _)
Join(texts, sep) ==
    IF texts = <<>> THEN <<>>
    ELSE IF Len(texts) = 1 THEN texts[1]
    ELSE texts[1] \o sep \o Join(Tail(texts), sep)

\* The stripped, non-empty text nodes of an element.
Strings(element) ==
    SelectSeq([i \in 1..Len(element) |-> Strip(element[i])], LAMBDA x : x # <<>>)

\* element.get_text(strip=True)
ElementText(element) == Join(Strings(element), <<>>)

\* For each element: its spans, then the element itself if it has text.
RECURSIVE SaleElements(_)
SaleElements(elements) ==
    IF elements = <<>> THEN <<>>
    ELSE [i \in 1..Len(elements[1]) |-> Strip(elements[1][i])]
         \o (IF ElementText(elements[1]) # <<>> THEN <<ElementText(elements[1])>>
             ELSE <<>>)
         \o SaleElements(Tail(elements))

\* The text nodes of the elements, in order.
RECURSIVE AllStrings(_)
AllStrings(elements) ==
    IF elements = <<>> THEN <<>>
    ELSE Strings(elements[1]) \o AllStrings(Tail(elements))

\* article.get_text(' ', strip=True)
ArticleText(article) ==
    Join(AllStrings(article.shields) \o Strings(<<article.title>>)
            \o AllStrings(article.smart_labels), <<" ">>)

FutureDays ==
    {W_maandag, W_morgen, W_dinsdag, W_woensdag, W_donderdag, W_vrijdag,
     W_zaterdag, W_zondag}

SaleKeywords == {W_halve_prijs, W_gratis, W_korting, W_voor, W_percent}

CalculationPhrases == {W_halve_prijs, W_gratis, W_voor}

\* The number extract_price_numeric returns, as a fraction.
PriceNumber(price_str) ==
    LET x == extract_price_numeric(price_str)
    IN  IF x = None THEN None ELSE Some(QOfDecimal(TheValue(x)))

\* The values at the start with the display price as sale_price.
NoSale_DisplayPrice ==
    [is_active_sale |-> FALSE, is_future_sale |-> FALSE, sale_price |-> Some(Q(1, 1)),
     sale_starts_at |-> None, sale_type |-> None]

\* The values the five results have at the start of the function.
NoSale ==
    [is_active_sale |-> FALSE, is_future_sale |-> FALSE, sale_price |-> None,
     sale_starts_at |-> None, sale_type |-> None]

\* sale_spans: the elements of the smart labels, then those of the shields.
SaleSpans(article) ==
    SaleElements(article.smart_labels) \o SaleElements(article.shields)

\* combined_sale_text: the lowered texts of the sale elements, joined.
CombinedSaleText(article) ==
    Join([i \in 1..Len(SaleSpans(article)) |-> Lower(SaleSpans(article)[i])], <<" ">>)

\* The date indicators read in the other order: a future date first.
SaleTiming_FutureFirst(has_vandaag, has_future_date) ==
    IF has_future_date THEN "future" ELSE "active"

\* if has_vandaag: active; elif has_future_date: future; elif
\* has_sale_keywords (true in this branch): active.

SaleTiming(has_vandaag, has_future_date) ==
    IF has_vandaag THEN "active"
    ELSE IF has_future_date THEN "future"
    ELSE "active"

detect_sale_and_calculate_price(article, current_price) ==
    LET sale_spans == SaleSpans(article)
        combined_sale_text == CombinedSaleText(article)
        date_text ==
            IF article.smart_labels # <<>>
            THEN Some(Strip(Join([i \in 1..Len(article.smart_labels) |->
                                    ElementText(article.smart_labels[i])], <<" ">>)))
            ELSE None
        has_vandaag == Contains(combined_sale_text, W_vandaag)
        has_future_date == \E day \in FutureDays : Contains(combined_sale_text, day)
        has_sale_keywords ==
            \E keyword \in SaleKeywords : Contains(combined_sale_text, keyword)
        needs_calculation ==
            \E phrase \in CalculationPhrases : Contains(combined_sale_text, phrase)
        sale_price ==
            IF needs_calculation
            THEN calculate_sale_price(ArticleText(article), current_price)
            ELSE PriceNumber(current_price)
        sale_type ==
            IF combined_sale_text # <<>> THEN Some(Strip(combined_sale_text)) ELSE None
    IN  IF sale_spans # <<>> /\ has_sale_keywords
        THEN IF SaleTiming(has_vandaag, has_future_date) = "future"
             THEN [NoSale EXCEPT !.sale_type = sale_type, !.sale_price = sale_price,
                                 !.is_future_sale = TRUE,
                                 !.sale_starts_at =
                                    IF date_text # None /\ TheValue(date_text) # <<>>
                                    THEN date_text
                                    ELSE Some(Strip(combined_sale_text))]
             ELSE [NoSale EXCEPT !.sale_type = sale_type, !.sale_price = sale_price,
                                 !.is_active_sale = TRUE]
        ELSE NoSale

(***************************************************************************)
(* Inputs of the text functions: promotion texts, regular prices, price    *)
(* texts and product cards. A regular price is what extract_product_info   *)
(* found for the product: the amount of the aria-label "Prijs: ..." as it  *)
(* is written (no range check there: 0.00 included), the amount of a price *)
(* element in [0.01, 1000.00], or "Not available".                         *)
(***************************************************************************)
\* Promotion texts.
SaleTexts ==
    { \* "2 voor 0.99"
      <<"2", " ", "v", "o", "o", "r", " ", "0", ".", "9", "9">>,
      \* "VOOR 1.89"
      <<"V", "O", "O", "R", " ", "1", ".", "8", "9">>,
      \* "1 EURO KORTING"
      <<"1", " ", "E", "U", "R", "O", " ", "K", "O", "R", "T", "I", "N", "G">>,
      \* "5 euro korting"
      <<"5", " ", "e", "u", "r", "o", " ", "k", "o", "r", "t", "i", "n", "g">>,
      \* "30% Korting"
      <<"3", "0", "%", " ", "K", "o", "r", "t", "i", "n", "g">>,
      \* "150% korting"
      <<"1", "5", "0", "%", " ", "k", "o", "r", "t", "i", "n", "g">>,
      \* "2e halve prijs"
      <<"2", "e", " ", "h", "a", "l", "v", "e", " ", "p", "r", "i", "j", "s">>,
      \* "halve prijs"
      <<"h", "a", "l", "v", "e", " ", "p", "r", "i", "j", "s">>,
      \* "1 + 1 gratis"
      <<"1", " ", "+", " ", "1", " ", "g", "r", "a", "t", "i", "s">>,
      \* "2+1 GRATIS"
      <<"2", "+", "1", " ", "G", "R", "A", "T", "I", "S">>,
      \* "3e gratis"
      <<"3", "e", " ", "g", "r", "a", "t", "i", "s">>,
      \* "100 gram voor 1.69"
      <<"1", "0", "0", " ", "g", "r", "a", "m", " ", "v", "o", "o", "r", " ",
        "1", ".", "6", "9">>,
      \* "500 ml voor 2,00"
      <<"5", "0", "0", " ", "m", "l", " ", "v", "o", "o", "r", " ", "2", ",",
        "0", "0">>,
      \* "0 voor 0.99"
      <<"0", " ", "v", "o", "o", "r", " ", "0", ".", "9", "9">>,
      \* "0e gratis"
      <<"0", "e", " ", "g", "r", "a", "t", "i", "s">>,
      \* "0 + 0 gratis"
      <<"0", " ", "+", " ", "0", " ", "g", "r", "a", "t", "i", "s">>,
      \* "0 gram voor 1.69"
      <<"0", " ", "g", "r", "a", "m", " ", "v", "o", "o", "r", " ", "1", ".",
        "6", "9">>,
      \* "2 voor 3,50 2e gratis"
      <<"2", " ", "v", "o", "o", "r", " ", "3", ",", "5", "0", " ", "2", "e",
        " ", "g", "r", "a", "t", "i", "s">>,
      \* "25% korting 2 voor 5"
      <<"2", "5", "%", " ", "k", "o", "r", "t", "i", "n", "g", " ", "2", " ",
        "v", "o", "o", "r", " ", "5">>,
      \* "halve prijs 3e gratis"
      <<"h", "a", "l", "v", "e", " ", "p", "r", "i", "j", "s", " ", "3", "e",
        " ", "g", "r", "a", "t", "i", "s">>,
      \* "ah cola"
      <<"a", "h", " ", "c", "o", "l", "a">>,
      \* "gratis bezorging"
      <<"g", "r", "a", "t", "i", "s", " ", "b", "e", "z", "o", "r", "g", "i",
        "n", "g">> }

\* Regular (display) prices.
RegularPrices ==
    { \* "€0.00"
      <<Euro, "0", ".", "0", "0">>,
      \* "€10.00"
      <<Euro, "1", "0", ".", "0", "0">>,
      \* "€9.00"
      <<Euro, "9", ".", "0", "0">>,
      \* "€2,49"
      <<Euro, "2", ",", "4", "9">>,
      \* "Not available"
      <<"N", "o", "t", " ", "a", "v", "a", "i", "l", "a", "b", "l", "e">> }

\* Texts handed to extract_price.
PriceInputs ==
    { \* "€0.00 €2.49"
      <<Euro, "0", ".", "0", "0", " ", Euro, "2", ".", "4", "9">>,
      \* "€1200,00 €2,49"
      <<Euro, "1", "2", "0", "0", ",", "0", "0", " ", Euro, "2", ",", "4", "9">>,
      \* "2,49 €3.00"
      <<"2", ",", "4", "9", " ", Euro, "3", ".", "0", "0">>,
      \* "1.99 2,49"
      <<"1", ".", "9", "9", " ", "2", ",", "4", "9">>,
      \* "0,00 2,49"
      <<"0", ",", "0", "0", " ", "2", ",", "4", "9">>,
      \* "€0.00 2,49"
      <<Euro, "0", ".", "0", "0", " ", "2", ",", "4", "9">>,
      \* "3.00 € €2,49"
      <<"3", ".", "0", "0", " ", Euro, " ", Euro, "2", ",", "4", "9">>,
      \* "€0.00"
      <<Euro, "0", ".", "0", "0">>,
      \* "0.00 €"
      <<"0", ".", "0", "0", " ", Euro>>,
      \* "0.00"
      <<"0", ".", "0", "0">>,
      \* "€0,00"
      <<Euro, "0", ",", "0", "0">>,
      \* "0,00 €"
      <<"0", ",", "0", "0", " ", Euro>>,
      \* "0,00"
      <<"0", ",", "0", "0">>,
      \* "€0.01"
      <<Euro, "0", ".", "0", "1">>,
      \* "0.01 €"
      <<"0", ".", "0", "1", " ", Euro>>,
      \* "0.01"
      <<"0", ".", "0", "1">>,
      \* "€9,99"
      <<Euro, "9", ",", "9", "9">>,
      \* "9,99 €"
      <<"9", ",", "9", "9", " ", Euro>>,
      \* "9,99"
      <<"9", ",", "9", "9">>,
      \* "€999.99"
      <<Euro, "9", "9", "9", ".", "9", "9">>,
      \* "999.99 €"
      <<"9", "9", "9", ".", "9", "9", " ", Euro>>,
      \* "999.99"
      <<"9", "9", "9", ".", "9", "9">>,
      \* "€1000.00"
      <<Euro, "1", "0", "0", "0", ".", "0", "0">>,
      \* "1000.00 €"
      <<"1", "0", "0", "0", ".", "0", "0", " ", Euro>>,
      \* "1000.00"
      <<"1", "0", "0", "0", ".", "0", "0">>,
      \* "€1000,00"
      <<Euro, "1", "0", "0", "0", ",", "0", "0">>,
      \* "1000,00 €"
      <<"1", "0", "0", "0", ",", "0", "0", " ", Euro>>,
      \* "1000,00"
      <<"1", "0", "0", "0", ",", "0", "0">>,
      \* "€1000.01"
      <<Euro, "1", "0", "0", "0", ".", "0", "1">>,
      \* "1000.01 €"
      <<"1", "0", "0", "0", ".", "0", "1", " ", Euro>>,
      \* "1000.01"
      <<"1", "0", "0", "0", ".", "0", "1">>,
      \* "€1000,01"
      <<Euro, "1", "0", "0", "0", ",", "0", "1">>,
      \* "1000,01 €"
      <<"1", "0", "0", "0", ",", "0", "1", " ", Euro>>,
      \* "1000,01"
      <<"1", "0", "0", "0", ",", "0", "1">>,
      \* "€1234.56"
      <<Euro, "1", "2", "3", "4", ".", "5", "6">>,
      \* "1234.56 €"
      <<"1", "2", "3", "4", ".", "5", "6", " ", Euro>>,
      \* "1234.56"
      <<"1", "2", "3", "4", ".", "5", "6">>,
      \* "0,75 l"
      <<"0", ",", "7", "5", " ", "l">>,
      \* "1,5 L 2,49 €"
      <<"1", ",", "5", " ", "L", " ", "2", ",", "4", "9", " ", Euro>>,
      \* "Not available"
      <<"N", "o", "t", " ", "a", "v", "a", "i", "l", "a", "b", "l", "e">> }

\* Product cards.
Articles ==
    { \* labels [], shields [], title "AH cola"
      [smart_labels |-> <<>>,
       shields |-> <<>>,
       title |-> <<"A", "H", " ", "c", "o", "l", "a">>],
      \* labels [], shields [['30% korting']], title "AH cola"
      [smart_labels |-> <<>>,
       shields |-> <<<<<<"3", "0", "%", " ", "k", "o", "r", "t", "i", "n", "g">>>>>>,
       title |-> <<"A", "H", " ", "c", "o", "l", "a">>],
      \* labels [], shields [['150% korting']], title "AH cola"
      [smart_labels |-> <<>>,
       shields |-> <<<<<<"1", "5", "0", "%", " ", "k", "o", "r", "t", "i", "n", "g">>>>>>,
       title |-> <<"A", "H", " ", "c", "o", "l", "a">>],
      \* labels [], shields [['5 euro korting']], title "AH cola"
      [smart_labels |-> <<>>,
       shields |-> <<<<<<"5", " ", "e", "u", "r", "o", " ", "k", "o", "r", "t", "i", "n", "g">>>>>>,
       title |-> <<"A", "H", " ", "c", "o", "l", "a">>],
      \* labels [], shields [['2e', 'halve prijs']], title "AH cola"
      [smart_labels |-> <<>>,
       shields |-> <<<<<<"2", "e">>, <<"h", "a", "l", "v", "e", " ", "p", "r", "i", "j", "s">>>>>>,
       title |-> <<"A", "H", " ", "c", "o", "l", "a">>],
      \* labels [['vanaf maandag']], shields [['2 voor 3.00']], title "AH cola"
      [smart_labels |-> <<<<<<"v", "a", "n", "a", "f", " ", "m", "a", "a", "n", "d", "a", "g">>>>>>,
       shields |-> <<<<<<"2", " ", "v", "o", "o", "r", " ", "3", ".", "0", "0">>>>>>,
       title |-> <<"A", "H", " ", "c", "o", "l", "a">>],
      \* labels [['vandaag']], shields [['1+1 gratis']], title "AH cola"
      [smart_labels |-> <<<<<<"v", "a", "n", "d", "a", "a", "g">>>>>>,
       shields |-> <<<<<<"1", "+", "1", " ", "g", "r", "a", "t", "i", "s">>>>>>,
       title |-> <<"A", "H", " ", "c", "o", "l", "a">>],
      \* labels [['vanaf maandag']], shields [], title "AH cola"
      [smart_labels |-> <<<<<<"v", "a", "n", "a", "f", " ", "m", "a", "a", "n", "d", "a", "g">>>>>>,
       shields |-> <<>>,
       title |-> <<"A", "H", " ", "c", "o", "l", "a">>],
      \* labels [['vandaag en morgen']], shields [['25% korting']], title "AH cola"
      [smart_labels |-> <<<<<<"v", "a", "n", "d", "a", "a", "g", " ", "e", "n", " ", "m", "o", "r", "g", "e", "n">>>>>>,
       shields |-> <<<<<<"2", "5", "%", " ", "k", "o", "r", "t", "i", "n", "g">>>>>>,
       title |-> <<"A", "H", " ", "c", "o", "l", "a">>],
      \* labels [], shields [['gratis bezorging']], title "AH cola"
      [smart_labels |-> <<>>,
       shields |-> <<<<<<"g", "r", "a", "t", "i", "s", " ", "b", "e", "z", "o", "r", "g", "i", "n", "g">>>>>>,
       title |-> <<"A", "H", " ", "c", "o", "l", "a">>],
      \* labels [], shields [['voordeel']], title "AH cola"
      [smart_labels |-> <<>>,
       shields |-> <<<<<<"v", "o", "o", "r", "d", "e", "e", "l">>>>>>,
       title |-> <<"A", "H", " ", "c", "o", "l", "a">>],
      \* labels [['morgen']], shields [['2e gratis']], title "AH cola"
      [smart_labels |-> <<<<<<"m", "o", "r", "g", "e", "n">>>>>>,
       shields |-> <<<<<<"2", "e", " ", "g", "r", "a", "t", "i", "s">>>>>>,
       title |-> <<"A", "H", " ", "c", "o", "l", "a">>],
      \* labels [['']], shields [['zondag 10% korting']], title "AH cola"
      [smart_labels |-> <<<<<<>>>>>>,
       shields |-> <<<<<<"z", "o", "n", "d", "a", "g", " ", "1", "0", "%", " ", "k", "o", "r", "t", "i", "n", "g">>>>>>,
       title |-> <<"A", "H", " ", "c", "o", "l", "a">>],
      \* labels [], shields [['100 gram voor 1.69']], title "AH kaas"
      [smart_labels |-> <<>>,
       shields |-> <<<<<<"1", "0", "0", " ", "g", "r", "a", "m", " ", "v", "o", "o", "r", " ", "1", ".", "6", "9">>>>>>,
       title |-> <<"A", "H", " ", "k", "a", "a", "s">>],
      \* labels [['t/m dinsdag'], ['vandaag']], shields [['3 voor 5,00']], title "AH cola"
      [smart_labels |-> <<<<<<"t", "/", "m", " ", "d", "i", "n", "s", "d", "a", "g">>>>, <<<<"v", "a", "n", "d", "a", "a", "g">>>>>>,
       shields |-> <<<<<<"3", " ", "v", "o", "o", "r", " ", "5", ",", "0", "0">>>>>>,
       title |-> <<"A", "H", " ", "c", "o", "l", "a">>],
      \* labels [], shields [['OP=OP']], title "2 voor 1"
      [smart_labels |-> <<>>,
       shields |-> <<<<<<"O", "P", "=", "O", "P">>>>>>,
       title |-> <<"2", " ", "v", "o", "o", "r", " ", "1">>],
      \* labels [], shields [['Halve Prijs']], title "AH cola"
      [smart_labels |-> <<>>,
       shields |-> <<<<<<"H", "a", "l", "v", "e", " ", "P", "r", "i", "j", "s">>>>>>,
       title |-> <<"A", "H", " ", "c", "o", "l", "a">>],
      \* labels [['Vanaf Woensdag']], shields [['1 euro korting']], title "AH cola"
      [smart_labels |-> <<<<<<"V", "a", "n", "a", "f", " ", "W", "o", "e", "n", "s", "d", "a", "g">>>>>>,
       shields |-> <<<<<<"1", " ", "e", "u", "r", "o", " ", "k", "o", "r", "t", "i", "n", "g">>>>>>,
       title |-> <<"A", "H", " ", "c", "o", "l", "a">>],
      \* labels [['vandaag']], shields [], title "AH cola"
      [smart_labels |-> <<<<<<"v", "a", "n", "d", "a", "a", "g">>>>>>,
       shields |-> <<>>,
       title |-> <<"A", "H", " ", "c", "o", "l", "a">>],
      \* labels [], shields [['korting']], title "AH cola"
      [smart_labels |-> <<>>,
       shields |-> <<<<<<"k", "o", "r", "t", "i", "n", "g">>>>>>,
       title |-> <<"A", "H", " ", "c", "o", "l", "a">>] }

NoArticle == [smart_labels |-> <<>>, shields |-> <<>>, title |-> <<>>]

\* One application of a function: fn, and its arguments (scraper: whose
\* extract_price; the fields a function does not take are empty).
Applications ==
    [fn : {"calculate_sale_price"}, scraper : {"both"}, text : SaleTexts,
     price : RegularPrices, article : {NoArticle}]
    \cup
    [fn : {"detect_sale_and_calculate_price"}, scraper : {"both"}, text : {<<>>},
     price : RegularPrices, article : Articles]
    \cup
    [fn : {"extract_price"}, scraper : {"comprehensive", "selenium"},
     text : PriceInputs, price : {<<>>}, article : {NoArticle}]

NoApplication ==
    [fn |-> "none", scraper |-> "both", text |-> <<>>, price |-> <<>>,
     article |-> NoArticle]

\* The function has not returned yet; it has returned v.
Pending == [done |-> FALSE, value |-> {}]
Returned(v) == [done |-> TRUE, value |-> v]

(***************************************************************************)
(* Inputs: the observations a scraper hands to smart_save_products. The    *)
(* argument products is a list of 1..MaxBatch observations; the model      *)
(* draws its length at the call and each element when the loop reaches it. *)
(***************************************************************************)
URLs == {"u1", "u2"}

EUR_1_00 == <<Euro, "1", ".", "0", "0">>
EUR_1_0c == <<Euro, "1", ",", "0">>
EUR_1_20 == <<Euro, "1", ".", "2", "0">>

PriceTexts == {EUR_1_00, EUR_1_0c, EUR_1_20, NotAvailable}

\* A product dict whose 'url' is None or '' (extract_product_info found no
\* usable link); its price is not read.
NoUrl == ""

Observations ==
    [url : URLs, price : PriceTexts] \cup {[url |-> NoUrl, price |-> EUR_1_00]}

\* Which scraper's smart_save_products a task runs: tasks 1 and 2 are two
\* scrape_category tasks of one asyncio.gather, task 3 is the Selenium
\* scraper's call, any further task a scrape_brand task.
KindOf(t) ==
    CASE t \in {1, 2} -> "category" [] t = 3 -> "selenium" [] OTHER -> "brand"

(***************************************************************************)
(* The ledger the specification describes (4.4), for the sequential check. *)
(* The amount an observation's price text states, in cents, is tabulated   *)
(* here independently of extract_price_numeric.                            *)
(***************************************************************************)
Amount(text) ==
    CASE text = EUR_1_00 -> 100
      [] text = EUR_1_0c -> 100
      [] text = EUR_1_20 -> 120

\* A decimal <<m, k>> in cents (the prices of the model have k <= 2).
Cents(dec) == dec[1] * Pow10(2 - dec[2])

Unseen ==
    [tracked |-> FALSE, amount |-> 0, updated |-> 0,
     text |-> <<>>, same |-> TRUE, in_call |-> FALSE,
     in_batch |-> FALSE, across |-> FALSE]

RefClass(e, text) ==
    IF ~e.tracked THEN "new"
    ELSE IF Amount(text) = e.amount THEN "unchanged"
    ELSE "updated"

\* One observation of a URL with price text `text`: Unseen -> Tracked, then
\* Tracked -> Tracked, counted in updated iff the amount differs.
\* text is the URL's last observation, same: all its observations were that
\* one, in_call: the last one was made in the running call, in_batch /
\* across: an observation repeated the one before it within a call / from
\* an earlier call.
RefStep(e, text) ==
    IF ~e.tracked
    THEN [tracked |-> TRUE, amount |-> Amount(text), updated |-> 0,
          text |-> text, same |-> TRUE, in_call |-> TRUE,
          in_batch |-> FALSE, across |-> FALSE]
    ELSE [tracked |-> TRUE,
          amount |-> Amount(text),
          updated |-> IF Amount(text) = e.amount THEN e.updated ELSE e.updated + 1,
          text |-> text,
          same |-> e.same /\ text = e.text,
          in_call |-> TRUE,
          in_batch |-> e.in_batch \/ (text = e.text /\ e.in_call),
          across |-> e.across \/ (text = e.text /\ ~e.in_call)]

\* A call starts: no observation of it has been made yet.
RefCall(r) == [u \in URLs |-> [r[u] EXCEPT !.in_call = FALSE]]

NoVerdict == [expected |-> "none", got |-> "none", repeat |-> FALSE, wrote |-> FALSE]

RefInit == [cur |-> [u \in URLs |-> Unseen], saved |-> [u \in URLs |-> Unseen],
            last |-> NoVerdict]

(***************************************************************************)
(* State.                                                                  *)
(*   db      the committed database file: the tables products and          *)
(*           price_history (rows in rowid order), the names in brands, and *)
(*           sqlite_sequence, the last AUTOINCREMENT id of each table.     *)
(*           A price_history row carries read_at, the id of the product's  *)
(*           latest price_history row at the SELECT the row was written    *)
(*           after (0 for the row written with a new product): it is no    *)
(*           column, it records which stored price the writer had read.    *)
(*   writer  the task whose connection holds SQLite's write lock, 0: none. *)
(*   wdb     the database as the writer's connection sees it (its          *)
(*           uncommitted changes applied); equal to db when writer = 0.    *)
(*   calls   the smart_save_products calls started so far.                 *)
(*   ref     kept only by SpecSeq, where calls run one after another: the  *)
(*           ledger of section 4.4 of the specification (Unseen / Tracked  *)
(*           per URL), stepped with every observation the code classifies, *)
(*           and put back to its value at the start of a call that raises. *)
(* Per task, the call it runs:                                             *)
(*   pc; n (len(products)); idx (the for loop's position); product         *)
(*   (products[idx]); existing, price_float, product_id and stats as in    *)
(*   the source; raised (the exception the call caught). At pc = "done"    *)
(*   the call has ended and these are as it left them.                     *)
(* For SpecText, which applies the text functions of extract_product_info  *)
(* to one input:                                                           *)
(*   arg     the function applied and its arguments;                       *)
(*   result  whether the function has returned, and what.                  *)
(* For SpecClear, which runs clear_database beside reconciliations:        *)
(*   clear   pc: the statement clear_database is at; committed: whether    *)
(*           its conn.commit() of the DELETEs has returned.                *)
(***************************************************************************)
VARIABLES db, wdb, writer, calls, ref,
          pc, n, idx, product, existing, price_float, product_id, stats, raised,
          arg, result, clear, fetch, click, api

vars == <<db, wdb, writer, calls, ref,
          pc, n, idx, product, existing, price_float, product_id, stats, raised,
          arg, result, clear, fetch, click, api>>

\* The comprehensive run's page fetches, the load-more loop of the Selenium
\* scraper and the request the API is answering.
runs == <<fetch, click, api>>

\* What the specifications beside Spec and SpecSeq keep: the run of
\* clear_database and the runs above.
rest == <<clear, fetch, click, api>>

\* The application of a text function and what it returned.
texts == <<arg, result>>

locals == <<n, idx, product, existing, price_float, product_id, stats, raised>>

\* setup_database: the empty tables.
EmptyDb ==
    [products |-> <<>>, price_history |-> <<>>, brands |-> {},
     seq_products |-> 0, seq_history |-> 0]

ZeroStats == [new |-> 0, updated |-> 0, unchanged |-> 0]

NoProduct == [url |-> "", price |-> <<>>]

\* The database and the tasks after setup_database.
StoreInit ==
    /\ db = EmptyDb
    /\ wdb = EmptyDb
    /\ writer = 0
    /\ calls = 0
    /\ ref = RefInit
    /\ pc = [t \in Tasks |-> "idle"]
    /\ n = [t \in Tasks |-> 0]
    /\ idx = [t \in Tasks |-> 1]
    /\ product = [t \in Tasks |-> NoProduct]
    /\ existing = [t \in Tasks |-> None]
    /\ price_float = [t \in Tasks |-> None]
    /\ product_id = [t \in Tasks |-> 0]
    /\ stats = [t \in Tasks |-> ZeroStats]
    /\ raised = [t \in Tasks |-> "none"]

\* clear_database has not been started.
ClearIdle == [pc |-> "idle", committed |-> FALSE]

\* ---------------------------------------------------------------------------
\* The page fetches of a comprehensive run (ah_comprehensive_scraper.py, main)
\* ---------------------------------------------------------------------------

\* Letters of the alphabet the run resyncs (26 in the source).
NLetters == 3

\* max_concurrent, the permits of the semaphore (20 in the source).
MaxConcurrent == 2

\* limit_per_host of the session's connector (30 in the source): more than
\* max_concurrent, less than the letters and the permits together.
LimitPerHost == 3

\* The most brands a letter page lists.
MaxBrands == 2

\* The categories resync_categories scrapes before the letters start.
NCategories == 2

Letters == 1..NLetters

BrandSlots == 1..MaxBrands

Categories == 1..NCategories

\* main has built the scraper and the session and get_all_categories has
\* returned the categories (its one request, made alone, is over): every
\* permit is free, resync_categories has created one scrape_category per
\* category, no letter has been started.
FetchInit ==
    [sem |-> MaxConcurrent,
     cat |-> [c \in Categories |-> "waiting"],
     letter |-> [l \in Letters |-> "idle"],
     brand |-> [l \in Letters |-> [b \in BrandSlots |-> "none"]]]

\* ---------------------------------------------------------------------------
\* The load-more loop (ah_selenium_scraper.py, click_meer_weergeven_until_done)
\* ---------------------------------------------------------------------------

max_clicks == 1000

button_timeout == 30

\* The loop is entered: no click yet, the timer has just been started.
ClickInit ==
    [pc |-> "loop", click_count |-> 0, waited |-> 0, why |-> "running"]

\* ---------------------------------------------------------------------------
\* The API (api/main.py)
\* ---------------------------------------------------------------------------

\* No request has been received and nothing has been answered.
NoRequest == [endpoint |-> "none"]

NoResponse == [status |-> 0]

ApiIdle == [request |-> NoRequest, response |-> NoResponse]

RestInit ==
    /\ clear = ClearIdle
    /\ fetch = FetchInit
    /\ click = ClickInit
    /\ api = ApiIdle

Init ==
    /\ StoreInit
    /\ arg = NoApplication
    /\ result = Pending
    /\ RestInit

(***************************************************************************)
(* SQL statements on a database value.                                     *)
(***************************************************************************)
\* What a statement of task t reads: its own transaction, else the file.
View(t) == IF writer = t THEN wdb ELSE db

Rows(table) == {table[i] : i \in 1..Len(table)}

\* The id of the latest price_history row of a product, 0 for none.
LatestHistoryId(d, pid) ==
    LET ids == {h.id : h \in {r \in Rows(d.price_history) : r.product_id = pid}} IN
    IF ids = {} THEN 0 ELSE CHOOSE x \in ids : \A y \in ids : y <= x

\* SELECT id, current_price FROM products WHERE url = ?  (fetchone); read_at
\* notes the product's latest price_history row at this SELECT.
SelectByUrl(d, url) ==
    LET hits == {i \in 1..Len(d.products) : d.products[i].url = url} IN
    IF hits = {} THEN None
    ELSE LET i == CHOOSE x \in hits : \A y \in hits : x <= y
         IN  Some([id |-> d.products[i].id, current_price |-> d.products[i].current_price,
                   read_at |-> LatestHistoryId(d, d.products[i].id)])

\* Mutant of UniqueUrlOk: the url column without UNIQUE.
UniqueUrlOk_NoConstraint(d, url) == TRUE

\* url TEXT UNIQUE: may a row with this url be inserted?
UniqueUrlOk(d, url) == \A r \in Rows(d.products) : r.url # url

\* price REAL NOT NULL: may this price be inserted into price_history?
NotNullOk(price) == price # None

\* Mutant of UpdatePrice: the UPDATE without its WHERE clause.
UpdatePrice_NoWhere(d, pid, price) ==
    [d EXCEPT !.products =
        [i \in 1..Len(d.products) |-> [d.products[i] EXCEPT !.current_price = price]]]

\* Mutant of UpdatePrice: the UPDATE also writes the source_type column.
UpdatePrice_Resave(d, pid, price) ==
    [d EXCEPT !.products =
        [i \in 1..Len(d.products) |->
            IF d.products[i].id = pid
            THEN [d.products[i] EXCEPT !.current_price = price,
                                       !.source_type = "resaved"]
            ELSE d.products[i]]]

\* UPDATE products SET current_price = ? WHERE id = ?
UpdatePrice(d, pid, price) ==
    [d EXCEPT !.products =
        [i \in 1..Len(d.products) |->
            IF d.products[i].id = pid
            THEN [d.products[i] EXCEPT !.current_price = price]
            ELSE d.products[i]]]

\* INSERT INTO products (...) VALUES (...); lastrowid is seq_products after it.
InsertProductRow(d, url, price, source_type) ==
    [d EXCEPT !.seq_products = @ + 1,
              !.products = Append(@, [id |-> d.seq_products + 1, url |-> url,
                                      current_price |-> price,
                                      source_type |-> source_type])]

\* Mutant of InsertHistoryRow: INSERT OR REPLACE keyed by product_id.
InsertHistoryRow_Replace(d, pid, price, readAt) ==
    [d EXCEPT !.price_history =
                Append(SelectSeq(@, LAMBDA h : h.product_id # pid),
                       [id |-> d.seq_history + 1, product_id |-> pid,
                        price |-> TheValue(price), read_at |-> readAt]),
              !.seq_history = @ + 1]

\* INSERT INTO price_history (product_id, price) VALUES (?, ?)
InsertHistoryRow(d, pid, price, readAt) ==
    [d EXCEPT !.seq_history = @ + 1,
              !.price_history = Append(@, [id |-> d.seq_history + 1, product_id |-> pid,
                                           price |-> TheValue(price), read_at |-> readAt])]

\* Mutant of PriceChanged: "old_price is not price_float", true of any two
\* float objects.
PriceChanged_Identity(old_price, new_price) == TRUE

\* if old_price != price_float
PriceChanged(old_price, new_price) == old_price # new_price

\* The source_type column of a new product: the comprehensive scraper stores
\* its argument, the Selenium scraper the literal 'selenium'.
SourceType(k) == k

\* The brand the Selenium scraper looks up when brand_id is None
\* (source_type = brand['name']).
SeleniumBrand == "AH"

(***************************************************************************)
(* smart_save_products, one action per awaited statement.                  *)
(***************************************************************************)
\* A write statement of t can run: the lock is free or t's own.
CanWrite(t) == writer \in {0, t}

\* An exception leaves the try block: except Exception logs and returns
\* stats; leaving "async with" closes the connection without a commit, which
\* rolls its open transaction back and frees the write lock.
Raise(t, exception) ==
    /\ raised' = [raised EXCEPT ![t] = exception]
    /\ pc' = [pc EXCEPT ![t] = "done"]
    /\ wdb' = IF writer = t THEN db ELSE wdb
    /\ writer' = IF writer = t THEN 0 ELSE writer

\* The Selenium scraper runs after the comprehensive scraper's gathers have
\* ended (sync_all_ah_data.main awaits one, then the other).
MayStart(t) ==
    \A u \in Tasks \ {t} :
        (KindOf(u) = "selenium") # (KindOf(t) = "selenium") => pc[u] = "idle"

\* The call: products is not empty (the callers check it); connect,
\* stats = zeros.
Call(t) ==
    /\ pc[t] = "idle"
    /\ MayStart(t)
    /\ calls < MaxCalls
    /\ calls' = calls + 1
    /\ \E len \in 1..MaxBatch : n' = [n EXCEPT ![t] = len]
    /\ pc' = [pc EXCEPT ![t] = IF KindOf(t) = "selenium" THEN "brand" ELSE "loop"]
    /\ UNCHANGED <<db, wdb, writer, idx, product, existing, price_float, product_id,
                   stats, raised>>

\* Selenium only: SELECT id FROM brands WHERE name = ?; found: go on.
BrandLookup(t) ==
    /\ pc[t] = "brand"
    /\ pc' = [pc EXCEPT ![t] =
                IF SeleniumBrand \in View(t).brands THEN "loop" ELSE "brand_insert"]
    /\ UNCHANGED <<db, wdb, writer, calls, locals>>

\* Selenium's save_products_to_db, which differs from its smart_save_products
\* only here: the brand is not stored: log the error and return stats.
BrandMissing(t) ==
    /\ pc[t] = "brand"
    /\ SeleniumBrand \notin View(t).brands
    /\ pc' = [pc EXCEPT ![t] = "done"]
    /\ UNCHANGED <<db, wdb, writer, calls, locals>>

\* Selenium only: INSERT INTO brands (name UNIQUE), then await conn.commit().
BrandInsert(t) ==
    /\ pc[t] = "brand_insert"
    /\ CanWrite(t)
    /\ IF SeleniumBrand \in db.brands
       THEN /\ Raise(t, "unique_brand")
            /\ UNCHANGED db
       ELSE /\ db' = [db EXCEPT !.brands = @ \cup {SeleniumBrand}]
            /\ wdb' = [db EXCEPT !.brands = @ \cup {SeleniumBrand}]
            /\ pc' = [pc EXCEPT ![t] = "loop"]
            /\ UNCHANGED <<writer, raised>>
    /\ UNCHANGED <<calls, n, idx, product, existing, price_float, product_id, stats>>

\* for product in products: if not product.get('url'): continue;
\* SELECT ... WHERE url = ?; existing = fetchone();
\* price_float = extract_price_numeric(product['price']); then the branch:
\* existing and changed -> the UPDATE; existing and equal -> unchanged += 1;
\* not existing -> the INSERT. existing, price_float and product_id are
\* kept only while the iteration that set them runs (they are dead after it).
Select(t) ==
    /\ pc[t] = "loop"
    /\ idx[t] <= n[t]
    /\ \E p \in Observations :
        LET ex == SelectByUrl(View(t), p.url)
            pf == extract_price_numeric(p.price)
        IN  /\ product' = [product EXCEPT ![t] = p]
            /\ IF p.url = NoUrl
               THEN /\ idx' = [idx EXCEPT ![t] = @ + 1]
                    /\ UNCHANGED <<pc, existing, price_float, product_id, stats>>
               ELSE IF ex # None /\ ~PriceChanged(TheValue(ex).current_price, pf)
               THEN /\ stats' = [stats EXCEPT ![t].unchanged = @ + 1]
                    /\ idx' = [idx EXCEPT ![t] = @ + 1]
                    /\ UNCHANGED <<pc, existing, price_float, product_id>>
               ELSE /\ existing' = [existing EXCEPT ![t] = ex]
                    /\ price_float' = [price_float EXCEPT ![t] = pf]
                    /\ product_id' = [product_id EXCEPT ![t] =
                                        IF ex # None THEN TheValue(ex).id ELSE 0]
                    /\ pc' = [pc EXCEPT ![t] = IF ex # None THEN "update" ELSE "insert"]
                    /\ UNCHANGED <<stats, idx>>
    /\ UNCHANGED <<db, wdb, writer, calls, n, raised>>

\* UPDATE products SET current_price = ?, last_updated = ... WHERE id = ?
UpdateProduct(t) ==
    /\ pc[t] = "update"
    /\ CanWrite(t)
    /\ writer' = t
    /\ wdb' = UpdatePrice(wdb, product_id[t], price_float[t])
    /\ pc' = [pc EXCEPT ![t] = "update_history"]
    /\ UNCHANGED <<db, calls, locals>>

\* INSERT INTO price_history after the UPDATE; stats['updated'] += 1.
InsertHistoryUpdated(t) ==
    /\ pc[t] = "update_history"
    /\ writer = t
    /\ IF NotNullOk(price_float[t])
       THEN /\ wdb' = InsertHistoryRow(wdb, product_id[t], price_float[t],
                                       TheValue(existing[t]).read_at)
            /\ stats' = [stats EXCEPT ![t].updated = @ + 1]
            /\ idx' = [idx EXCEPT ![t] = @ + 1]
            /\ pc' = [pc EXCEPT ![t] = "loop"]
            /\ existing' = [existing EXCEPT ![t] = None]
            /\ price_float' = [price_float EXCEPT ![t] = None]
            /\ product_id' = [product_id EXCEPT ![t] = 0]
            /\ UNCHANGED <<writer, raised>>
       ELSE /\ Raise(t, "not_null")
            /\ UNCHANGED <<stats, idx, existing, price_float, product_id>>
    /\ UNCHANGED <<db, calls, n, product>>

\* INSERT INTO products (...); product_id = cursor.lastrowid
InsertProduct(t) ==
    /\ pc[t] = "insert"
    /\ CanWrite(t)
    /\ IF UniqueUrlOk(wdb, product[t].url)
       THEN /\ wdb' = InsertProductRow(wdb, product[t].url, price_float[t],
                                       SourceType(KindOf(t)))
            /\ writer' = t
            /\ product_id' = [product_id EXCEPT ![t] = wdb.seq_products + 1]
            /\ pc' = [pc EXCEPT ![t] = "insert_history"]
            /\ UNCHANGED raised
       ELSE /\ Raise(t, "unique_url")
            /\ UNCHANGED product_id
    /\ UNCHANGED <<db, calls, n, idx, product, existing, price_float, stats>>

\* INSERT INTO price_history for the new product; stats['new'] += 1.
InsertHistoryNew(t) ==
    /\ pc[t] = "insert_history"
    /\ writer = t
    /\ IF NotNullOk(price_float[t])
       THEN /\ wdb' = InsertHistoryRow(wdb, product_id[t], price_float[t], 0)
            /\ stats' = [stats EXCEPT ![t].new = @ + 1]
            /\ idx' = [idx EXCEPT ![t] = @ + 1]
            /\ pc' = [pc EXCEPT ![t] = "loop"]
            /\ existing' = [existing EXCEPT ![t] = None]
            /\ price_float' = [price_float EXCEPT ![t] = None]
            /\ product_id' = [product_id EXCEPT ![t] = 0]
            /\ UNCHANGED <<writer, raised>>
       ELSE /\ Raise(t, "not_null")
            /\ UNCHANGED <<stats, idx, existing, price_float, product_id>>
    /\ UNCHANGED <<db, calls, n, product>>

\* A write statement of t while another connection holds the write lock:
\* it waits (no step), or its busy timeout ends: "database is locked".
Busy(t) ==
    /\ pc[t] \in {"update", "insert", "brand_insert"}
    /\ ~CanWrite(t)
    /\ Raise(t, "locked")
    /\ UNCHANGED <<db, calls, n, idx, product, existing, price_float,
                   product_id, stats>>

\* After the loop: await conn.commit(); return stats.
Commit(t) ==
    /\ pc[t] = "loop"
    /\ idx[t] > n[t]
    /\ db' = IF writer = t THEN wdb ELSE db
    /\ writer' = IF writer = t THEN 0 ELSE writer
    /\ pc' = [pc EXCEPT ![t] = "done"]
    /\ UNCHANGED <<wdb, calls, locals>>

\* The call has returned: its locals are gone.
Return(t) ==
    /\ pc[t] = "done"
    /\ pc' = [pc EXCEPT ![t] = "idle"]
    /\ n' = [n EXCEPT ![t] = 0]
    /\ idx' = [idx EXCEPT ![t] = 1]
    /\ product' = [product EXCEPT ![t] = NoProduct]
    /\ existing' = [existing EXCEPT ![t] = None]
    /\ price_float' = [price_float EXCEPT ![t] = None]
    /\ product_id' = [product_id EXCEPT ![t] = 0]
    /\ stats' = [stats EXCEPT ![t] = ZeroStats]
    /\ raised' = [raised EXCEPT ![t] = "none"]
    /\ UNCHANGED <<db, wdb, writer, calls>>

\* Tasks run concurrently (asyncio.gather over scrape_brand / scrape_category,
\* the Selenium scraper beside them), each call on its own connection.
Next ==
    \E t \in Tasks :
        \/ Call(t) /\ UNCHANGED <<ref, texts, rest>>
        \/ BrandLookup(t) /\ UNCHANGED <<ref, texts, rest>>
        \/ BrandMissing(t) /\ UNCHANGED <<ref, texts, rest>>
        \/ BrandInsert(t) /\ UNCHANGED <<ref, texts, rest>>
        \/ Select(t) /\ UNCHANGED <<ref, texts, rest>>
        \/ UpdateProduct(t) /\ UNCHANGED <<ref, texts, rest>>
        \/ InsertHistoryUpdated(t) /\ UNCHANGED <<ref, texts, rest>>
        \/ InsertProduct(t) /\ UNCHANGED <<ref, texts, rest>>
        \/ InsertHistoryNew(t) /\ UNCHANGED <<ref, texts, rest>>
        \/ Busy(t) /\ UNCHANGED <<ref, texts, rest>>
        \/ Commit(t) /\ UNCHANGED <<ref, texts, rest>>
        \/ Return(t) /\ UNCHANGED <<ref, texts, rest>>

Spec == Init /\ [][Next]_vars

(***************************************************************************)
(* SpecSeq: the same calls, run one after another (a call starts only when *)
(* every other call has returned), with the reference ledger beside them.  *)
(***************************************************************************)
NoCallRunning == \A u \in Tasks : pc[u] = "idle"

\* The counter of stats a step of t incremented, "none" for no counter.
Incremented(t) ==
    IF pc[t] = "done" THEN "none"
    ELSE IF stats'[t].new = stats[t].new + 1 THEN "new"
    ELSE IF stats'[t].updated = stats[t].updated + 1 THEN "updated"
    ELSE IF stats'[t].unchanged = stats[t].unchanged + 1 THEN "unchanged"
    ELSE "none"

\* ref after a step of t: saved at the call, stepped when the code has
\* classified an observation (last: what the ledger expects, what the code
\* counted, whether the observation repeats the URL's previous one, whether
\* the iteration wrote a row), put back when the call raises.
Log(t) ==
    ref' =
        IF raised[t] = "none" /\ raised'[t] # "none"
        THEN [cur |-> ref.saved, saved |-> ref.saved, last |-> NoVerdict]
        ELSE IF pc[t] = "idle"
        THEN [cur |-> RefCall(ref.cur), saved |-> RefCall(ref.cur), last |-> NoVerdict]
        ELSE IF Incremented(t) # "none"
        THEN LET u == product'[t].url
                 e == ref.cur[u]
                 text == product'[t].price
             IN  [cur |-> [ref.cur EXCEPT ![u] = RefStep(e, text)],
                  saved |-> ref.saved,
                  last |-> [expected |-> RefClass(e, text),
                            got |-> Incremented(t),
                            repeat |-> e.tracked /\ e.text = text,
                            wrote |-> pc[t] # "loop"]]
        ELSE ref

NextSeq ==
    \E t \in Tasks :
        \/ NoCallRunning /\ Call(t) /\ Log(t) /\ UNCHANGED <<texts, rest>>
        \/ BrandLookup(t) /\ Log(t) /\ UNCHANGED <<texts, rest>>
        \/ BrandMissing(t) /\ Log(t) /\ UNCHANGED <<texts, rest>>
        \/ BrandInsert(t) /\ Log(t) /\ UNCHANGED <<texts, rest>>
        \/ Select(t) /\ Log(t) /\ UNCHANGED <<texts, rest>>
        \/ UpdateProduct(t) /\ Log(t) /\ UNCHANGED <<texts, rest>>
        \/ InsertHistoryUpdated(t) /\ Log(t) /\ UNCHANGED <<texts, rest>>
        \/ InsertProduct(t) /\ Log(t) /\ UNCHANGED <<texts, rest>>
        \/ InsertHistoryNew(t) /\ Log(t) /\ UNCHANGED <<texts, rest>>
        \/ Commit(t) /\ Log(t) /\ UNCHANGED <<texts, rest>>
        \/ Return(t) /\ Log(t) /\ UNCHANGED <<texts, rest>>

SpecSeq == Init /\ [][NextSeq]_vars

(***************************************************************************)
(* SpecText: one of the text functions is applied to one input.            *)
(***************************************************************************)
InitText ==
    /\ StoreInit
    /\ arg \in Applications
    /\ result = Pending
    /\ RestInit

store == <<db, wdb, writer, calls, ref, pc, locals>>

ExtractPrice ==
    /\ arg.fn = "extract_price"
    /\ ~result.done
    /\ result' = Returned(extract_price(arg.scraper, arg.text))
    /\ UNCHANGED <<arg, store, rest>>

CalculateSalePrice ==
    /\ arg.fn = "calculate_sale_price"
    /\ ~result.done
    /\ result' = Returned(calculate_sale_price(arg.text, arg.price))
    /\ UNCHANGED <<arg, store, rest>>

DetectSale ==
    /\ arg.fn = "detect_sale_and_calculate_price"
    /\ ~result.done
    /\ result' = Returned(detect_sale_and_calculate_price(arg.article, arg.price))
    /\ UNCHANGED <<arg, store, rest>>

NextText == ExtractPrice \/ CalculateSalePrice \/ DetectSale

SpecText == InitText /\ [][NextText]_vars

(***************************************************************************)
(* SpecClear: clear_database (a script with its own sqlite3 connection)    *)
(* runs once beside the reconciliations of one category task. Its first    *)
(* DELETE opens the connection's transaction, which the commit after the   *)
(* fourth DELETE ends; VACUUM runs after that commit. The table categories *)
(* is not in db (no modelled statement writes it): its DELETE is a step    *)
(* that changes no modelled table. The counts read after VACUUM are only   *)
(* printed.                                                                *)
(***************************************************************************)
\* The connection of clear_database, as a holder of the write lock.
ClearConn == NTasks + 1

\* The task that reconciles beside clear_database: one category task.
ClearTasks == {1}

ClearStep(from, to, d) ==
    /\ clear.pc = from
    /\ CanWrite(ClearConn)
    /\ writer' = ClearConn
    /\ wdb' = d
    /\ clear' = [clear EXCEPT !.pc = to]
    /\ UNCHANGED <<db, calls, pc, locals>>

\* cursor.execute("DELETE FROM price_history"): the transaction begins.
ClearHistory ==
    ClearStep("idle", "products", [wdb EXCEPT !.price_history = <<>>])

\* cursor.execute("DELETE FROM products")
ClearProducts ==
    ClearStep("products", "brands", [wdb EXCEPT !.products = <<>>])

\* cursor.execute("DELETE FROM brands")
ClearBrands ==
    ClearStep("brands", "categories", [wdb EXCEPT !.brands = {}])

\* cursor.execute("DELETE FROM categories")
ClearCategories ==
    ClearStep("categories", "commit", wdb)

\* conn.commit()
ClearCommit ==
    /\ clear.pc = "commit"
    /\ writer = ClearConn
    /\ db' = wdb
    /\ writer' = 0
    /\ clear' = [pc |-> "vacuum", committed |-> TRUE]
    /\ UNCHANGED <<wdb, calls, pc, locals>>

\* conn.execute("VACUUM"); conn.commit(); the counts; conn.close()
ClearVacuum ==
    /\ clear.pc = "vacuum"
    /\ writer = 0
    /\ clear' = [clear EXCEPT !.pc = "done"]
    /\ UNCHANGED <<db, wdb, writer, calls, pc, locals>>

\* A statement of clear_database while a reconciliation holds the write
\* lock: it waits (no step), or its busy timeout ends: "database is
\* locked", except Exception prints the error and sys.exit(1) ends the
\* script; the connection's open transaction, if any, is rolled back.
ClearBusy ==
    /\ clear.pc \in {"idle", "vacuum"}
    /\ ~CanWrite(ClearConn)
    /\ clear' = [clear EXCEPT !.pc = "failed"]
    /\ UNCHANGED <<db, wdb, writer, calls, pc, locals>>

NextClear ==
    \/ \E t \in ClearTasks : Call(t) /\ UNCHANGED <<ref, texts, rest>>
    \/ \E t \in ClearTasks : Select(t) /\ UNCHANGED <<ref, texts, rest>>
    \/ \E t \in ClearTasks : UpdateProduct(t) /\ UNCHANGED <<ref, texts, rest>>
    \/ \E t \in ClearTasks : InsertHistoryUpdated(t) /\ UNCHANGED <<ref, texts, rest>>
    \/ \E t \in ClearTasks : InsertProduct(t) /\ UNCHANGED <<ref, texts, rest>>
    \/ \E t \in ClearTasks : InsertHistoryNew(t) /\ UNCHANGED <<ref, texts, rest>>
    \/ \E t \in ClearTasks : Busy(t) /\ UNCHANGED <<ref, texts, rest>>
    \/ \E t \in ClearTasks : Commit(t) /\ UNCHANGED <<ref, texts, rest>>
    \/ \E t \in ClearTasks : Return(t) /\ UNCHANGED <<ref, texts, rest>>
    \/ ClearHistory /\ UNCHANGED <<ref, texts, runs>>
    \/ ClearProducts /\ UNCHANGED <<ref, texts, runs>>
    \/ ClearBrands /\ UNCHANGED <<ref, texts, runs>>
    \/ ClearCategories /\ UNCHANGED <<ref, texts, runs>>
    \/ ClearCommit /\ UNCHANGED <<ref, texts, runs>>
    \/ ClearVacuum /\ UNCHANGED <<ref, texts, runs>>
    \/ ClearBusy /\ UNCHANGED <<ref, texts, runs>>

SpecClear == Init /\ [][NextClear]_vars

\* ---------------------------------------------------------------------------
\* SpecFetch: the coroutines of a comprehensive run and the requests they issue
\* ---------------------------------------------------------------------------

\* A request is "get" from session.get until the connector gives it a
\* connection and "conn" while it is on the wire.
\* The scrape_brand tasks whose position is one of S.
BrandsAt(f, S) == {q \in Letters \X BrandSlots : f.brand[q[1]][q[2]] \in S}

OnTheWire(f) ==
    {<<"category", c, 0>> : c \in {x \in Categories : f.cat[x] = "conn"}}
    \cup {<<"letter", l, 0>> : l \in {x \in Letters : f.letter[x] = "conn"}}
    \cup {<<"brand", q[1], q[2]>> : q \in BrandsAt(f, {"conn"})}

Issued(f) ==
    {<<"category", c, 0>> : c \in {x \in Categories : f.cat[x] \in {"get", "conn"}}}
    \cup {<<"letter", l, 0>> : l \in {x \in Letters : f.letter[x] \in {"get", "conn"}}}
    \cup {<<"brand", q[1], q[2]>> : q \in BrandsAt(f, {"get", "conn"})}

\* The connector hands out a connection while fewer than limit_per_host are
\* in use.
CanConnect(f) == Cardinality(OnTheWire(f)) < LimitPerHost

\* resync_categories has returned: every scrape_category is done.
CategoriesDone(f) == \A c \in Categories : f.cat[c] = "done"

\* The tasks that hold a permit of the semaphore.
Holders(f) ==
    {<<"category", c, 0>> : c \in {x \in Categories : f.cat[x] \in {"held", "get", "conn"}}}
    \cup {<<"brand", q[1], q[2]>> : q \in BrandsAt(f, {"held", "get", "conn"})}

FetchFrame == UNCHANGED <<store, texts, clear, click, api>>

\* scrape_category: async with self.semaphore.
ScrapeCategoryAcquire(c) ==
    /\ fetch.cat[c] = "waiting"
    /\ fetch.sem > 0
    /\ fetch' = [fetch EXCEPT !.sem = @ - 1, !.cat[c] = "held"]
    /\ FetchFrame

\* scrape_category: save_or_update_category gave no id (the function returns
\* and the permit is released) or gave one (get_products_from_url issues the
\* request).
ScrapeCategorySaved(c) ==
    /\ fetch.cat[c] = "held"
    /\ \E category_id \in BOOLEAN :
         fetch' = IF category_id
                  THEN [fetch EXCEPT !.cat[c] = "get"]
                  ELSE [fetch EXCEPT !.sem = @ + 1, !.cat[c] = "done"]
    /\ FetchFrame

ScrapeCategoryConnect(c) ==
    /\ fetch.cat[c] = "get"
    /\ CanConnect(fetch)
    /\ fetch' = [fetch EXCEPT !.cat[c] = "conn"]
    /\ FetchFrame

\* scrape_category: the request ends (a page, another status, an exception
\* or the timeout); the products are saved and the with block is left.
ScrapeCategoryResponse(c) ==
    /\ fetch.cat[c] \in {"get", "conn"}
    /\ fetch' = [fetch EXCEPT !.sem = @ + 1, !.cat[c] = "done"]
    /\ FetchFrame

\* main gathers resync_letter for every letter once resync_categories has
\* returned; resync_letter calls get_brands_for_letter, which issues the
\* request for the letter page.
ResyncLetterStart(l) ==
    /\ CategoriesDone(fetch)
    /\ fetch.letter[l] = "idle"
    /\ fetch' = [fetch EXCEPT !.letter[l] = "get"]
    /\ FetchFrame

ResyncLetterConnect(l) ==
    /\ fetch.letter[l] = "get"
    /\ CanConnect(fetch)
    /\ fetch' = [fetch EXCEPT !.letter[l] = "conn"]
    /\ FetchFrame

\* get_brands_for_letter returns k brands (none after an error); with no
\* brand resync_letter returns, otherwise it gathers one scrape_brand each.
ResyncLetterResponse(l) ==
    /\ fetch.letter[l] \in {"get", "conn"}
    /\ \E k \in 0..MaxBrands :
         fetch' = IF k = 0
                  THEN [fetch EXCEPT !.letter[l] = "done"]
                  ELSE [fetch EXCEPT
                          !.letter[l] = "gather",
                          !.brand[l] = [b \in BrandSlots |->
                                          IF b <= k THEN "waiting" ELSE "none"]]
    /\ FetchFrame

\* scrape_brand: async with self.semaphore.
ScrapeBrandAcquire(l, b) ==
    /\ fetch.brand[l][b] = "waiting"
    /\ fetch.sem > 0
    /\ fetch' = [fetch EXCEPT !.sem = @ - 1, !.brand[l][b] = "held"]
    /\ FetchFrame

ScrapeBrandSaved(l, b) ==
    /\ fetch.brand[l][b] = "held"
    /\ \E brand_id \in BOOLEAN :
         fetch' = IF brand_id
                  THEN [fetch EXCEPT !.brand[l][b] = "get"]
                  ELSE [fetch EXCEPT !.sem = @ + 1, !.brand[l][b] = "done"]
    /\ FetchFrame

ScrapeBrandConnect(l, b) ==
    /\ fetch.brand[l][b] = "get"
    /\ CanConnect(fetch)
    /\ fetch' = [fetch EXCEPT !.brand[l][b] = "conn"]
    /\ FetchFrame

ScrapeBrandResponse(l, b) ==
    /\ fetch.brand[l][b] \in {"get", "conn"}
    /\ fetch' = [fetch EXCEPT !.sem = @ + 1, !.brand[l][b] = "done"]
    /\ FetchFrame

\* resync_letter: the gather of the letter's scrape_brand tasks has returned.
ResyncLetterDone(l) ==
    /\ fetch.letter[l] = "gather"
    /\ \A b \in BrandSlots : fetch.brand[l][b] \in {"none", "done"}
    /\ fetch' = [fetch EXCEPT !.letter[l] = "done"]
    /\ FetchFrame

NextFetch ==
    \/ \E c \in Categories : ScrapeCategoryAcquire(c)
    \/ \E c \in Categories : ScrapeCategorySaved(c)
    \/ \E c \in Categories : ScrapeCategoryConnect(c)
    \/ \E c \in Categories : ScrapeCategoryResponse(c)
    \/ \E l \in Letters : ResyncLetterStart(l)
    \/ \E l \in Letters : ResyncLetterConnect(l)
    \/ \E l \in Letters : ResyncLetterResponse(l)
    \/ \E l \in Letters, b \in BrandSlots : ScrapeBrandAcquire(l, b)
    \/ \E l \in Letters, b \in BrandSlots : ScrapeBrandSaved(l, b)
    \/ \E l \in Letters, b \in BrandSlots : ScrapeBrandConnect(l, b)
    \/ \E l \in Letters, b \in BrandSlots : ScrapeBrandResponse(l, b)
    \/ \E l \in Letters : ResyncLetterDone(l)

SpecFetch == Init /\ [][NextFetch]_vars

\* ---------------------------------------------------------------------------
\* SpecClick: one call of click_meer_weergeven_until_done
\* ---------------------------------------------------------------------------

\* The XPath selectors tried for the button, each waited for at most a second.
Selectors == 8

\* Seconds since last_button_time when the loop comes round after a click:
\* the two sleeps (1 s and 2 s), or longer than button_timeout when the
\* extraction and the save took that long.
AfterClick == {3, button_timeout + 1}

\* while click_count < max_clicks
WithinCap_Inclusive(c) == c <= max_clicks

WithinCap(c) == c < max_clicks

ClickFrame == UNCHANGED <<store, texts, clear, fetch, api>>

\* The while condition fails: the loop ends.
LoopExit ==
    /\ click.pc = "loop"
    /\ ~WithinCap(click.click_count)
    /\ click' = [click EXCEPT !.pc = "done", !.why = "max_clicks"]
    /\ ClickFrame

\* The selectors are tried in turn: one finds a clickable button, and
\* last_button_time is reset, or none does after d seconds.
FindButton ==
    /\ click.pc = "loop"
    /\ WithinCap(click.click_count)
    /\ \/ click' = [click EXCEPT !.pc = "button", !.waited = 0]
       \/ \E d \in 0..Selectors :
            click' = [click EXCEPT
                        !.pc = "no_button",
                        !.waited = IF @ + d > button_timeout
                                   THEN button_timeout + 1 ELSE @ + d]
    /\ ClickFrame

\* No button: the loop ends when last_button_time is more than button_timeout
\* ago, otherwise it sleeps a second and comes round.
Wait ==
    /\ click.pc = "no_button"
    /\ click' = IF click.waited > button_timeout
                THEN [click EXCEPT !.pc = "done", !.why = "timeout"]
                ELSE [click EXCEPT !.pc = "loop", !.waited = @ + 1]
    /\ ClickFrame

\* The button is scrolled to and clicked by JavaScript, PyAutoGUI or Selenium:
\* one method works and click_count is incremented, none does, or the scroll
\* raises.
Click ==
    /\ click.pc = "button"
    /\ \/ click' = [click EXCEPT !.pc = "clicked", !.click_count = @ + 1]
       \/ click' = [click EXCEPT !.pc = "click_failed"]
       \/ click' = [click EXCEPT !.pc = "raised"]
    /\ ClickFrame

\* After the click the current URL is read: it holds 'kenmerk=' or not, or
\* reading it raises.
CheckUrl ==
    /\ click.pc = "clicked"
    /\ \E to \in {"url_kept", "url_lost", "raised"} :
         click' = [click EXCEPT !.pc = to]
    /\ ClickFrame

\* break: every click method failed, the URL lost the filter, or the
\* iteration raised.
Break ==
    /\ click.pc \in {"click_failed", "url_lost", "raised"}
    /\ click' = [click EXCEPT !.pc = "done", !.why = click.pc]
    /\ ClickFrame

\* The products of the page are extracted and saved: saved, none found, the
\* save raised, or the extraction raised.
Extract ==
    /\ click.pc = "url_kept"
    /\ \E to \in {"saved", "no_products", "save_error", "extract_error"} :
         click' = [click EXCEPT !.pc = to]
    /\ ClickFrame

\* The outcome is logged and the loop comes round.
Continue ==
    /\ click.pc \in {"saved", "no_products", "save_error", "extract_error"}
    /\ \E w \in AfterClick :
         click' = [click EXCEPT !.pc = "loop", !.waited = w]
    /\ ClickFrame

NextClick ==
    \/ LoopExit
    \/ FindButton
    \/ Wait
    \/ Click
    \/ CheckUrl
    \/ Break
    \/ Extract
    \/ Continue

\* The coroutine is not starved: every sleep, wait and await of the loop
\* returns.
SpecClick == Init /\ [][NextClick]_vars /\ WF_vars(NextClick)

\* ---------------------------------------------------------------------------
\* SpecApi: one request to the API and its answer (api/main.py)
\* ---------------------------------------------------------------------------

\* The supermarket of a product as the search page names it.
Supermarkets == {"Albert Heijn", "Jumbo", "Unknown"}

\* The brands find_supermarkets_in_radius can report.
Brands == {"Albert Heijn", "Jumbo"}

\* The most products a search returns.
MaxProducts == 2

\* What search_supermarktscanner returns: the products, each stood for by
\* its 'supermarket', or an exception when the page could not be fetched.
SearchResults ==
    {[raised |-> FALSE, products |-> p] :
        p \in UNION {[1..k -> Supermarkets] : k \in 0..MaxProducts}}
    \cup {[raised |-> TRUE, products |-> <<>>]}

\* What find_supermarkets_in_radius returns: the brands of the supermarkets
\* it found, or an exception.
RadiusResults == {[raised |-> FALSE, brands |-> B] : B \in SUBSET Brands}
                 \cup {[raised |-> TRUE, brands |-> {}]}

\* Optional[float] parameters: absent, zero or a usual value.
Latitudes == {None, Some(<<0, 1>>), Some(<<52, 1>>)}

Longitudes == {None, Some(<<5, 1>>)}

Radii == {None, Some(<<0, 1>>), Some(<<5, 1>>)}

\* SearchRequest.allowed_supermarkets: absent or a list of names.
AllowLists ==
    {None, Some(<<>>), Some(<<"Jumbo">>), Some(<<"Albert Heijn", "Jumbo">>)}

\* What geolocator.geocode does: a location, None, a timeout or service
\* error, any other exception.
GeocoderResults == {"location", "none", "timeout", "error"}

SearchRequests ==
    {[endpoint |-> e, latitude |-> la, longitude |-> lo, radius_km |-> r,
      allowed_supermarkets |-> a, search |-> s, radius |-> f] :
        e \in {"GET /search", "POST /search"}, la \in Latitudes,
        lo \in Longitudes, r \in Radii, a \in AllowLists,
        s \in SearchResults, f \in RadiusResults}

\* GET /search has no allowed_supermarkets parameter.
Requests ==
    {q \in SearchRequests :
        q.endpoint = "GET /search" => q.allowed_supermarkets = None}
    \cup {[endpoint |-> "POST /geocode", geocoder |-> g] : g \in GeocoderResults}

InitApi ==
    /\ StoreInit
    /\ arg = NoApplication
    /\ result = Pending
    /\ clear = ClearIdle
    /\ fetch = FetchInit
    /\ click = ClickInit
    /\ api \in {[request |-> q, response |-> NoResponse] : q \in Requests}

\* The elements of a list, as a set.
Elements(list) == {list[i] : i \in 1..Len(list)}

\* allowed_supermarkets after the location branch: the brands found in the
\* radius when latitude, longitude and radius_km are all truthy and the
\* lookup did not raise, otherwise what it was before (a set of names or
\* None).
AllowedSupermarkets(q, before) ==
    IF Truthy(q.latitude) /\ Truthy(q.longitude) /\ Truthy(q.radius_km)
       /\ ~q.radius.raised
    THEN Some(q.radius.brands)
    ELSE before

\* if allowed_supermarkets: None and an empty collection are falsy.
FilterApplies(allowed) == allowed # None /\ TheValue(allowed) # {}

\* products = [p for p in products if p.get('supermarket') in allowed]
FilterProducts(products, allowed) ==
    IF FilterApplies(allowed)
    THEN SelectSeq(products, LAMBDA p : p \in TheValue(allowed))
    ELSE products

\* The body of both search handlers, given allowed_supermarkets before the
\* location branch.
SearchResponse(q, before) ==
    IF q.search.raised
    THEN [status |-> 500]
    ELSE [status |-> 200,
          products |-> FilterProducts(q.search.products,
                                      AllowedSupermarkets(q, before))]

\* search_products
SearchProducts ==
    /\ api.request.endpoint = "GET /search"
    /\ api.response = NoResponse
    /\ api' = [api EXCEPT !.response = SearchResponse(api.request, None)]
    /\ UNCHANGED <<store, texts, clear, fetch, click>>

\* search_products_post
SearchProductsPost ==
    /\ api.request.endpoint = "POST /search"
    /\ api.response = NoResponse
    /\ api' = [api EXCEPT !.response =
                 SearchResponse(api.request,
                    IF api.request.allowed_supermarkets = None
                    THEN None
                    ELSE Some(Elements(TheValue(api.request.allowed_supermarkets))))]
    /\ UNCHANGED <<store, texts, clear, fetch, click>>

\* geocode_address: the location, None, or an Exception raised in place of
\* whatever geocode raised.
geocode_address(geocoder) ==
    CASE geocoder = "location" -> [raised |-> FALSE, location |-> Some("location")]
      [] geocoder = "none" -> [raised |-> FALSE, location |-> None]
      [] OTHER -> [raised |-> TRUE, location |-> None]

\* geocode_location: the HTTPException(404) is raised inside the try block,
\* HTTPException is an Exception, and except Exception answers 500.
geocode_location(geocoder) ==
    LET location == geocode_address(geocoder)
    IN  IF location.raised
        THEN [status |-> 500]
        ELSE IF location.location = None
             THEN [status |-> 500]
             ELSE [status |-> 200]

GeocodeLocation ==
    /\ api.request.endpoint = "POST /geocode"
    /\ api.response = NoResponse
    /\ api' = [api EXCEPT !.response = geocode_location(api.request.geocoder)]
    /\ UNCHANGED <<store, texts, clear, fetch, click>>

NextApi ==
    \/ SearchProducts
    \/ SearchProductsPost
    \/ GeocodeLocation

SpecApi == InitApi /\ [][NextApi]_vars

(***************************************************************************)
(* Properties.                                                             *)
(***************************************************************************)
\* The price_history rows of the product with this id, oldest first.
HistoryOf(d, pid) == SelectSeq(d.price_history, LAMBDA h : h.product_id = pid)

\* The number of price_history rows of the product(s) stored for a url.
HistCount(d, url) ==
    Cardinality({i \in 1..Len(d.price_history) :
                    \E r \in Rows(d.products) :
                        r.url = url /\ r.id = d.price_history[i].product_id})

\* No task is inside an iteration of the loop.
BetweenIterations ==
    \A t \in Tasks : pc[t] \in {"idle", "brand", "brand_insert", "loop", "done"}

\* C1: in every committed state, each stored product has price_history rows
\* and its current_price is the price of the latest of them.
C1_CurrentPriceIsLatestHistory ==
    \A r \in Rows(db.products) :
        LET hs == HistoryOf(db, r.id) IN
        /\ hs # <<>>
        /\ r.current_price = Some(hs[Len(hs)].price)

\* C1 witness: two products are committed, one of them with a price update.
C1_Witness ==
    /\ Len(db.products) = 2
    /\ \E r \in Rows(db.products) : Len(HistoryOf(db, r.id)) >= 2

\* C2 (as claimed): no two committed price_history rows of one product were
\* both appended by an update that had read the same stored price (the same
\* latest row) of that product.
C2_NoStaleAppend ==
    \A i, j \in 1..Len(db.price_history) :
        LET a == db.price_history[i]
            b == db.price_history[j]
        IN  (i # j /\ a.product_id = b.product_id /\ a.read_at # 0 /\ b.read_at # 0)
                => a.read_at # b.read_at

\* C3 (calls one after another): every observation is counted as the ledger
\* of the specification classifies it (first of a URL: new; amount equal to
\* the stored one: unchanged; else updated), and between iterations each
\* URL is stored iff it was observed, with current_price the last observed
\* amount, that amount in the latest price_history row, and 1 + (number of
\* 'updated') rows of price_history.
C3_LedgerStateMachine ==
    /\ ref.last.got = ref.last.expected
    /\ BetweenIterations =>
        \A u \in URLs :
            LET e == ref.cur[u]
                ex == SelectByUrl(wdb, u)
            IN  /\ e.tracked <=> ex # None
                /\ e.tracked =>
                    LET row == TheValue(ex)
                        hs == HistoryOf(wdb, row.id)
                    IN  /\ row.current_price # None
                        /\ Cents(TheValue(row.current_price)) = e.amount
                        /\ Len(hs) = 1 + e.updated
                        /\ Cents(hs[Len(hs)].price) = e.amount

\* C3 witness: after a URL was created and updated, an observation was
\* counted unchanged.
C3_Witness ==
    /\ BetweenIterations
    /\ ref.last.got = "unchanged"
    /\ \E u \in URLs : ref.cur[u].updated >= 1

\* C4 (calls one after another): an observation that repeats the URL's
\* previous one (same url, same price text) is counted unchanged and its
\* iteration writes no row; a URL observed only with one and the same
\* observation has exactly one price_history row.
C4_Idempotent ==
    /\ ref.last.repeat => (ref.last.got = "unchanged" /\ ~ref.last.wrote)
    /\ BetweenIterations =>
        \A u \in URLs :
            (ref.cur[u].tracked /\ ref.cur[u].same) => HistCount(wdb, u) = 1

\* C4 witness: one URL was observed with the same observation again within
\* a batch and again in a later batch, and never with another.
C4_Witness ==
    /\ BetweenIterations
    /\ \E u \in URLs :
        ref.cur[u].tracked /\ ref.cur[u].same /\ ref.cur[u].in_batch /\ ref.cur[u].across

C6_FindOrCreateCompletes ==
    \A t \in Tasks : pc[t] = "done" => raised[t] # "unique_url"

\* The tasks whose call has ended and not yet returned.
Ended == {t \in Tasks : pc[t] = "done"}

\* C7 (as claimed): when the only calls made so far are those of N >= 2
\* tasks, one call each with one observation, all for the same URL and with
\* pairwise different amounts, and all these calls have ended, the URL has N
\* price_history rows.
C7_NoLostEntry ==
    ( /\ Cardinality(Ended) >= 2
      /\ calls = Cardinality(Ended)
      /\ \A t \in Tasks \ Ended : pc[t] = "idle"
      /\ \A t \in Ended : n[t] = 1 /\ product[t] # NoProduct
      /\ \A t, u \in Ended :
            /\ product[t].url = product[u].url
            /\ extract_price_numeric(product[t].price) # None
            /\ t # u => extract_price_numeric(product[t].price)
                            # extract_price_numeric(product[u].price) )
    => \A t \in Ended : HistCount(db, product[t].url) = Cardinality(Ended)

\* C8 (as claimed): a call never raises on an observation of a stored URL
\* whose price text has no price (it counts it unchanged and goes on).
C8_UnparsableIsUnchanged ==
    \A t \in Tasks :
        (/\ pc[t] = "done"
         /\ product[t] # NoProduct
         /\ existing[t] # None
         /\ extract_price_numeric(product[t].price) = None)
        => raised[t] = "none"

\* C9 (as claimed): when a call has ended, other than by a lock timeout, at
\* an observation of a URL its SELECT did not find, whose price text has no
\* price, a product with that url is committed.
C9_UnparsableNewIsCreated ==
    \A t \in Tasks :
        (/\ pc[t] = "done"
         /\ raised[t] # "locked"
         /\ product[t] # NoProduct
         /\ existing[t] = None
         /\ extract_price_numeric(product[t].price) = None)
        => \E r \in Rows(db.products) : r.url = product[t].url

\* The rows of products and price_history that do not belong to a url.
OtherRows(d, url) ==
    [products |-> SelectSeq(d.products, LAMBDA r : r.url # url),
     price_history |->
        SelectSeq(d.price_history,
                  LAMBDA h : \A r \in Rows(d.products) : r.url = url => r.id # h.product_id)]

\* C10 (as claimed): when the processing of one product of a call raises,
\* what the call has done for its other products is committed.
C10_BadObservationDoesNotAbort ==
    [][\A t \in Tasks :
          (raised[t] = "none" /\ raised'[t] # "none" /\ product[t] # NoProduct)
              => OtherRows(db', product[t].url) = OtherRows(View(t), product[t].url)]_vars

\* The count a batch result reports under a key (0 for a key it has not).
Reported(counts, key) == IF key \in DOMAIN counts THEN counts[key] ELSE 0

\* The observations of a finished loop that no counter of stats counts.
Uncounted(t) == n[t] - (stats[t].new + stats[t].updated + stats[t].unchanged)

\* C11 (as claimed): when a call has gone through its whole batch without an
\* error, the result it returns reports under 'skipped' the observations it
\* passed over for a missing or empty url.
C11_SkippedIsReported ==
    \A t \in Tasks :
        (pc[t] = "done" /\ raised[t] = "none" /\ idx[t] > n[t])
            => Reported(stats[t], "skipped") = Uncounted(t)

\* Row i of the older price_history is row i of the newer one, unchanged.
HistoryKept(old, new) ==
    /\ Len(new.price_history) >= Len(old.price_history)
    /\ \A i \in 1..Len(old.price_history) :
        /\ new.price_history[i].id = old.price_history[i].id
        /\ new.price_history[i].product_id = old.price_history[i].product_id
        /\ new.price_history[i].price = old.price_history[i].price

\* Every product of the older table is in the newer one, with its url.
ProductsKept(old, new) ==
    \A r \in Rows(old.products) :
        \E q \in Rows(new.products) : q.id = r.id /\ q.url = r.url

\* C12: no step of a reconciliation removes a committed product or
\* price_history row or changes the product_id or price of a committed
\* price_history row, and no statement of a transaction that goes on does
\* so to a row the transaction has written.
C12_AppendOnly ==
    [][/\ HistoryKept(db, db') /\ ProductsKept(db, db')
       /\ (writer # 0 /\ writer' = writer)
            => (HistoryKept(wdb, wdb') /\ ProductsKept(wdb, wdb'))]_vars

\* C12 witness: a product was updated twice; its three rows are committed.
C12_Witness ==
    \E r \in Rows(db.products) : Len(HistoryOf(db, r.id)) >= 3

(***************************************************************************)
(* The promotion formulas as the specification states them.                *)
(***************************************************************************)
Formats ==
    {"N voor P", "voor P", "N euro korting", "N% korting", "Ne halve prijs",
     "halve prijs", "A + B gratis", "Ne gratis", "U unit voor P"}

\* The pattern of a format occurs in the text.
Matches(format, text) == Search(PatternOf(format), Lower(text)) # Fail

\* The stated order of the patterns.
StatedOrder ==
    [f \in Formats |->
        CASE f = "N voor P" -> 1 [] f = "voor P" -> 2 [] f = "N euro korting" -> 3
          [] f = "N% korting" -> 4 [] f = "Ne halve prijs" -> 5
          [] f = "halve prijs" -> 6 [] f = "A + B gratis" -> 7
          [] f = "Ne gratis" -> 8 [] f = "U unit voor P" -> 9]

\* The first number and the price that the occurrence of a format has.
NumberIn(format, text, group) ==
    Q(IntOf(Lower(text), Group(Search(PatternOf(format), Lower(text)), group)), 1)

PriceIn(format, text, group) ==
    QOfDecimal(FloatOf(Lower(text), Search(PatternOf(format), Lower(text)), group))

\* The value of the stated formula of a format that occurs in the text:
\* absent where the formula needs a regular price that is unknown, or
\* divides by zero.
StatedValue(format, text, regular_price) ==
    LET known == extract_price_numeric(regular_price) # None
        regular == QOfDecimal(TheValue(extract_price_numeric(regular_price)))
        N == NumberIn(format, text, 1)
        one == Q(1, 1)
    IN  CASE format = "N voor P" -> QDiv(PriceIn(format, text, 5), N)
          [] format = "voor P" -> Some(PriceIn(format, text, 3))
          [] format = "U unit voor P" -> QDiv(PriceIn(format, text, 7), N)
          [] ~known -> None
          [] format = "N euro korting" ->
                IF QLess(regular, N) THEN Some(Q(0, 1)) ELSE Some(QSub(regular, N))
          [] format = "N% korting" ->
                IF QLess(Q(100, 1), N) THEN Some(Q(0, 1))
                ELSE Some(QSub(regular, QMul(regular, Q(N[1], 100))))
          [] format = "Ne halve prijs" -> Some(QMul(Q(3, 4), regular))
          [] format = "halve prijs" -> QDiv(regular, Q(2, 1))
          [] format = "A + B gratis" ->
                QDiv(QMul(N, regular), QAdd(N, NumberIn(format, text, 5)))
          [] format = "Ne gratis" -> QDiv(QMul(QSub(N, one), regular), N)

\* The value of the first format, in the stated order, that occurs in the
\* text; absent if none occurs.
StatedSalePrice(text, regular_price) ==
    LET occurring == {f \in Formats : Matches(f, text)}
    IN  IF occurring = {} THEN None
        ELSE LET first == CHOOSE f \in occurring :
                              \A g \in occurring : StatedOrder[f] <= StatedOrder[g]
             IN  StatedValue(first, text, regular_price)

\* C13: for every text and every known or unknown regular price,
\* calculate_sale_price returns the value of the formula of the first
\* pattern, in the stated order, that matches the text (absent where no
\* pattern matches, the formula needs a regular price that is unknown, or
\* it divides by a quantity of 0); the values of several matching patterns
\* are never combined.
C13_FirstMatchWins ==
    (arg.fn = "calculate_sale_price" /\ result.done)
        => result.value = StatedSalePrice(arg.text, arg.price)

\* The functions applied in the state, returned.
CalculateDone == arg.fn = "calculate_sale_price" /\ result.done
DetectDone == arg.fn = "detect_sale_and_calculate_price" /\ result.done
ExtractDone == arg.fn = "extract_price" /\ result.done

\* The text has one of the words.
HasOneOf(text, words) == \E w \in words : Contains(text, w)

\* The display price is known.
PriceKnown(price) == extract_price_numeric(price) # None

\* C14: for a product whose badge text is 'N% korting' or 'N euro korting'
\* and has none of 'voor', 'gratis', 'halve prijs', the salePrice of
\* detect_sale_and_calculate_price is regular*(1-N/100) floored at 0,
\* respectively max(0, regular-N).
C14_KortingIsCalculated ==
    LET badge == CombinedSaleText(arg.article)
    IN  ( /\ DetectDone
          /\ Matches("N% korting", badge) \/ Matches("N euro korting", badge)
          /\ ~HasOneOf(badge, {W_voor, W_gratis, W_halve_prijs})
          /\ PriceKnown(arg.price) )
            => result.value.sale_price = StatedSalePrice(badge, arg.price)

\* C15: if the badge text has a generic sale keyword but no promotion
\* pattern matches, the product is flagged as on sale and its salePrice is
\* the display price as it is, never absent.
C15_KeywordOnlyKeepsDisplayPrice ==
    LET badge == CombinedSaleText(arg.article)
    IN  ( /\ DetectDone
          /\ HasOneOf(badge, {W_korting, W_gratis, W_voor, W_percent, W_halve_prijs})
          /\ \A f \in Formats :
                ~Matches(f, badge) /\ ~Matches(f, ArticleText(arg.article))
          /\ PriceKnown(arg.price) )
            => /\ result.value.is_active_sale \/ result.value.is_future_sale
               /\ result.value.sale_price # None
               /\ result.value.sale_price = PriceNumber(arg.price)

\* C16: for a text of the form 'U <unit> voor P', calculate_sale_price
\* returns P / U.
C16_UnitPrice ==
    (CalculateDone /\ Matches("U unit voor P", arg.text))
        => result.value = StatedValue("U unit voor P", arg.text, arg.price)

\* C17: in every result of detect_sale_and_calculate_price isActiveSale and
\* isFutureSale are not both true, salePrice is present only if one of the
\* two is true, and salePrice is absent if the badge text has no sale
\* keyword.
C17_FlagsExclusive ==
    DetectDone
        => /\ ~(result.value.is_active_sale /\ result.value.is_future_sale)
           /\ result.value.sale_price # None
                => (result.value.is_active_sale \/ result.value.is_future_sale)
           /\ ~HasOneOf(CombinedSaleText(arg.article), SaleKeywords)
                => result.value.sale_price = None

\* A future sale with a sale price.
C17_Witness ==
    /\ DetectDone
    /\ result.value.is_future_sale
    /\ ~result.value.is_active_sale
    /\ result.value.sale_price # None

\* C18: with a sale keyword in the badge text: 'vandaag' in it gives an
\* active sale, also next to a weekday; otherwise a weekday or 'morgen'
\* gives a future sale with saleStartsAt set; otherwise the sale is active.
\* saleStartsAt is set exactly for a future sale, and without a sale keyword
\* no sale is flagged.
C18_TimingClassification ==
    LET badge == CombinedSaleText(arg.article)
        keyword == HasOneOf(badge, SaleKeywords)
        today == Contains(badge, W_vandaag)
        later == HasOneOf(badge, FutureDays)
        r == result.value
    IN  DetectDone
            => /\ (keyword /\ today) => (r.is_active_sale /\ ~r.is_future_sale)
               /\ (keyword /\ ~today /\ later)
                    => (r.is_future_sale /\ ~r.is_active_sale /\ r.sale_starts_at # None)
               /\ (keyword /\ ~today /\ ~later)
                    => (r.is_active_sale /\ ~r.is_future_sale)
               /\ (r.sale_starts_at # None) <=> r.is_future_sale
               /\ ~keyword => (~r.is_active_sale /\ ~r.is_future_sale)

\* A badge with a sale keyword, 'vandaag' and a weekday: an active sale.
C18_Witness ==
    /\ DetectDone
    /\ HasOneOf(CombinedSaleText(arg.article), SaleKeywords)
    /\ Contains(CombinedSaleText(arg.article), W_vandaag)
    /\ HasOneOf(CombinedSaleText(arg.article), FutureDays)
    /\ result.value.is_active_sale
    /\ result.value.sale_starts_at = None

\* C19: a sale price of calculate_sale_price or of
\* detect_sale_and_calculate_price is absent or not negative.
C19_NeverNegative ==
    /\ CalculateDone /\ result.value # None
            => ~QLess(TheValue(result.value), Q(0, 1))
    /\ DetectDone /\ result.value.sale_price # None
            => ~QLess(TheValue(result.value.sale_price), Q(0, 1))

\* A euro discount larger than the known regular price: the result is 0.
C19_Witness ==
    /\ CalculateDone
    /\ Matches("N euro korting", arg.text)
    /\ ~Matches("voor P", arg.text)
    /\ PriceKnown(arg.price)
    /\ QLess(QOfDecimal(TheValue(extract_price_numeric(arg.price))),
             NumberIn("N euro korting", arg.text, 1))
    /\ result.value = Some(Q(0, 1))

\* The written amount of a price text: its digits and separator.
AmountText(text) == SelectSeq(text, LAMBDA c : c \in Digits \cup {",", "."})

\* The text is one amount, digits, a separator and two digits, with a euro
\* sign before or after it or none.
OneAmount(text) ==
    LET A == AmountText(text)
        e == DigitsEnd(A, 1)
    IN  /\ \A i \in 1..Len(text) : text[i] \in Digits \cup {",", ".", " ", Euro}
        /\ e > 1
        /\ Len(A) = e + 2
        /\ A[e] \in {",", "."}
        /\ A[e + 1] \in Digits /\ A[e + 2] \in Digits
        /\ Cardinality({i \in 1..Len(text) : text[i] = Euro}) <= 1

\* The written amount in cents.
AmountCents(text) ==
    LET A == AmountText(text)
        e == DigitsEnd(A, 1)
    IN  100 * DigitsValue(A, 1, e) + DigitsValue(A, e + 1, Len(A) + 1)

\* C20: for a price text with one amount, extract_price accepts the amount
\* 1000.00 written with a euro sign, answers "Not available" for an amount
\* above 1000.00 and for 0.00, and returns no price that is outside
\* [0.01, 1000.00] or is not the written amount.
C20_PriceRangeBoundary ==
    (ExtractDone /\ OneAmount(arg.text))
        => /\ (AmountCents(arg.text) = 100000 /\ \E i \in 1..Len(arg.text) : arg.text[i] = Euro)
                => result.value # NotAvailable
           /\ (AmountCents(arg.text) > 100000 \/ AmountCents(arg.text) = 0)
                => result.value = NotAvailable
           /\ result.value # NotAvailable
                => /\ result.value = EuroOf(arg.scraper) \o AmountText(arg.text)
                   /\ AmountCents(arg.text) \in 1..100000

\* The matches of one price pattern in the text, from left to right, from
\* position `from` on: each the written amount of its group.
RECURSIVE AmountsOf(_, _, _)
AmountsOf(p, text, from) ==
    LET m == SearchFrom(p.pat, text, from)
    IN  IF from > Len(text) \/ m = Fail THEN <<>>
        ELSE << [dec |-> FloatOf(text, m, p.first),
                 written |-> SubSeq(text, m[p.first], m[p.first + 3] - 1)] >>
             \o AmountsOf(p, text, IF m[Len(m)] > m[1] THEN m[Len(m)] ELSE m[1] + 1)

\* The amounts of the text in the stated precedence: those with the euro
\* sign before, those with the euro sign after, the bare comma decimals,
\* the bare dot decimals.
AmountsInPrecedence(scraper, text) ==
    AmountsOf(PricePatterns(scraper)[1], text, 1)
        \o AmountsOf(PricePatterns(scraper)[2], text, 1)
        \o AmountsOf(PricePatterns(scraper)[3], text, 1)
        \o AmountsOf(PricePatterns(scraper)[4], text, 1)

\* C21: extract_price returns the first amount, in the stated precedence,
\* that lies in [0.01, 1000.00], and "Not available" if there is none: an
\* earlier amount out of the range does not hide a later one in the range.
C21_FirstInRangeMatch ==
    LET amounts == AmountsInPrecedence(arg.scraper, RemoveUnitSizes(arg.text, 1))
        inRange == SelectSeq(amounts, LAMBDA a : InPriceRange(a.dec))
    IN  ExtractDone
            => result.value = IF inRange = <<>> THEN NotAvailable
                              ELSE EuroOf(arg.scraper) \o inRange[1].written

\* The url has one committed product, with one price_history row, of the
\* observed price.
StoredOnce(d, obs) ==
    /\ Cardinality({i \in 1..Len(d.products) : d.products[i].url = obs.url}) = 1
    /\ HistCount(d, obs.url) = 1
    /\ \E r \in Rows(d.products) :
            r.url = obs.url /\ r.current_price = extract_price_numeric(obs.price)

\* C22: when the only calls made so far are those of two tasks, one
\* observation each, of different URLs and with a price, and both calls have
\* ended, both have succeeded and the committed database holds both
\* products with their history, whatever the interleaving was.
C22_DisjointBatchesIndependent ==
    \A t, u \in Ended :
        ( /\ t # u
          /\ calls = 2
          /\ n[t] = 1 /\ n[u] = 1
          /\ product[t].url # NoUrl /\ product[u].url # NoUrl
          /\ product[t].url # product[u].url
          /\ extract_price_numeric(product[t].price) # None
          /\ extract_price_numeric(product[u].price) # None )
        => /\ raised[t] = "none" /\ raised[u] = "none"
           /\ StoredOnce(db, product[t]) /\ StoredOnce(db, product[u])

\* The tables clear_database empties are empty in d.
AllEmpty(d) == d.products = <<>> /\ d.price_history = <<>> /\ d.brands = {}

\* C23: clear_database empties products, price_history and brands in one
\* commit: a step of it that changes the committed database leaves all of
\* them empty, while its transaction is open the other connections read the
\* database as it was, and if clear_database ends with an error nothing has
\* been deleted.
C23_ClearIsAtomic ==
    /\ [][(clear' # clear /\ db' # db) => AllEmpty(db')]_vars
    /\ [](writer = ClearConn => \A t \in ClearTasks : View(t) = db)
    /\ [](clear.pc = "failed" => ~clear.committed)

\* C25: every committed price_history row refers to a committed product.
C25_HistoryHasProduct ==
    \A h \in Rows(db.price_history) : \E r \in Rows(db.products) : r.id = h.product_id

\* C24: the counts a call returns are the numbers of products it created
\* and price-updated in the committed database, also when it ends through
\* its error path: for the first call made (the database was empty and no
\* other call has run), when it has ended the committed products are
\* stats.new and the committed price_history rows stats.new + stats.updated.
C24_CountsAreCommitted ==
    \A t \in Ended :
        calls = 1
            => /\ Len(db.products) = stats[t].new
               /\ Len(db.price_history) = stats[t].new + stats[t].updated

\* The UPDATE of task t: the rows of products stay where they are, the
\* product of t keeps id, url and source_type, every other row is
\* untouched, and price_history is as it was.
UpdateFrame(t) ==
    /\ db' = db
    /\ Len(wdb'.products) = Len(wdb.products)
    /\ \A i \in 1..Len(wdb.products) :
        IF wdb.products[i].id = product_id[t]
        THEN /\ wdb'.products[i].id = wdb.products[i].id
             /\ wdb'.products[i].url = wdb.products[i].url
             /\ wdb'.products[i].source_type = wdb.products[i].source_type
        ELSE wdb'.products[i] = wdb.products[i]
    /\ wdb'.price_history = wdb.price_history
    /\ wdb'.brands = wdb.brands

\* The INSERT INTO price_history after the UPDATE: one row more, of the
\* product of t; products and the older rows are as they were.
AppendFrame(t) ==
    /\ db' = db
    /\ wdb'.products = wdb.products
    /\ Len(wdb'.price_history) = Len(wdb.price_history) + 1
    /\ SubSeq(wdb'.price_history, 1, Len(wdb.price_history)) = wdb.price_history
    /\ wdb'.price_history[Len(wdb'.price_history)].product_id = product_id[t]
    /\ wdb'.brands = wdb.brands

\* C26: a reconciliation of a stored URL changes at most the current_price
\* of that product and appends at most one price_history row for it: its
\* UPDATE keeps the product's id, url and source_type and every other row,
\* its INSERT appends one row of that product, and an observation counted
\* unchanged changes nothing.
C26_ReconciliationFrame ==
    [][\A t \in Tasks :
        /\ (pc[t] = "update" /\ pc'[t] = "update_history") => UpdateFrame(t)
        /\ (pc[t] = "update_history" /\ pc'[t] = "loop") => AppendFrame(t)
        /\ (pc[t] = "loop" /\ stats'[t].unchanged # stats[t].unchanged)
                => (db' = db /\ wdb' = wdb)]_vars

\* A product created by one kind of task whose price was updated (it has a
\* second price_history row) beside a product that has its first row only.
C26_Witness ==
    \E r, q \in Rows(db.products) :
        /\ r.id # q.id
        /\ Len(HistoryOf(db, r.id)) >= 2
        /\ Len(HistoryOf(db, q.id)) = 1
        /\ r.current_price = Some(HistoryOf(db, r.id)[Len(HistoryOf(db, r.id))].price)
        /\ q.current_price = Some(HistoryOf(db, q.id)[1].price)

\* C27: at any moment of a comprehensive run at most max_concurrent page
\* requests of the scraper are on the wire, every request being made by a
\* task that holds a permit of the semaphore.
C27_AtMostMaxConcurrentInFlight ==
    /\ Cardinality(OnTheWire(fetch)) <= MaxConcurrent
    /\ Issued(fetch) \subseteq Holders(fetch)

\* C28: click_meer_weergeven_until_done always terminates; it never counts
\* more than max_clicks clicks; it stops at once when no button has been found
\* for more than button_timeout seconds, when every click method failed, and
\* when the URL after a click has lost 'kenmerk='; after a failed extraction
\* or save the loop comes round.
C28_ClickLoopTerminates ==
    /\ <>(click.pc = "done")
    /\ [](click.click_count <= max_clicks)
    /\ [][(click.pc = "no_button" /\ click.waited > button_timeout)
            => (click'.pc = "done" /\ click'.why = "timeout")]_vars
    /\ [][click.pc \in {"click_failed", "url_lost"}
            => (click'.pc = "done" /\ click'.why = click.pc)]_vars
    /\ [][click.pc \in {"save_error", "extract_error"}
            => (click'.pc = "loop" /\ click'.click_count = click.click_count)]_vars
    /\ [](click.pc \in {"save_error", "extract_error"} => <>(click.pc = "loop"))

\* The loop has ended because max_clicks clicks were made.
C28_Witness ==
    /\ click.pc = "done"
    /\ click.why = "max_clicks"
    /\ click.click_count = max_clicks

\* The request names a latitude, a longitude and a radius.
LocationGiven(q) ==
    q.latitude # None /\ q.longitude # None /\ q.radius_km # None

\* C29: when /search is given a location filter (and the lookup of the
\* supermarkets in the radius succeeds) every returned product's supermarket
\* is the brand of a supermarket found in the radius, so that no product is
\* returned when none was found; when it is given an allow-list and no
\* location, every returned product's supermarket is on the list.
C29_OnlyAllowedSupermarkets ==
    LET q == api.request
        r == api.response
    IN  (q.endpoint \in {"GET /search", "POST /search"} /\ r.status = 200)
        => /\ (LocationGiven(q) /\ ~q.radius.raised)
                => Elements(r.products) \subseteq q.radius.brands
           /\ (~LocationGiven(q) /\ q.allowed_supermarkets # None)
                => Elements(r.products)
                     \subseteq Elements(TheValue(q.allowed_supermarkets))

\* C30: POST /geocode answers 404 when the geocoder finds no location, and
\* 500 only when geocoding raises.
C30_GeocodeNotFoundIs404 ==
    LET q == api.request
        r == api.response
    IN  (q.endpoint = "POST /geocode" /\ r # NoResponse)
        => /\ q.geocoder = "none" => r.status = 404
           /\ r.status = 500 => q.geocoder \in {"timeout", "error"}

====
